---- MODULE Spec2Model ----
(***************************************************************************)
(* Model of the MCP agent workbench (donapart/Guido_mcp):                  *)
(*   - McpClientManager   (agent/src/client.ts)                            *)
(*   - McpAgent           (agent/src/agent.ts, src/unnamed/part_002)       *)
(*   - ToolRegistry       (agent/src/registry.ts, listed in QUICKSTART.md) *)
(*   - AgentBridge        (extension/src/bridge.ts, in chatPanel.ts)       *)
(*                                                                         *)
(* Names are sequences of one-character strings so that the composition    *)
(* server + "__" + tool and String.split("__") are computed, not assumed.  *)
(***************************************************************************)
EXTENDS Integers, Sequences, FiniteSets, TLC

VARIABLES
  \* ---- namespaced names (SpecNames) ----
  nmServer,      \* name of the connected server
  nmTool,        \* name of one tool of its snapshot
  nmFull,        \* the name getToolsForLLM hands to the LLM
  nmRoute,       \* what callToolByFullName made of it
  nmPc           \* "start" | "listed" | "called"

VARIABLES
  \* ---- connection registry (SpecConn) ----
  impl,          \* "McpClientManager" | "AgentBridge": the class under test
  connections,   \* Map<string, connection>, in insertion order
  allTools,      \* AgentBridge.allTools
  registry,      \* ToolRegistry.tools as main() fills it, in insertion order
  procs,         \* live backend processes: [id, server]
  nextProc,      \* id of the next process spawned
  tasks,         \* the async calls in flight, one slot per caller
  lastDispatch,  \* what the last callToolByFullName / callTool did
  hist           \* history: did calls overlap, did a connect or close fail

VARIABLES
  \* ---- one run of the agent loop (SpecAgent) ----
  provider,      \* "openai" | "anthropic"
  maxIterations, \* config.maxIterations (AgentBridge: the constant 10)
  pc,            \* "loop" | "tools" | "done"
  iterations,    \* the loop counter
  messages,      \* the message history handed to the provider
  toolCalls,     \* AgentResult.toolCalls
  batch,         \* the requested invocations not yet processed
  toolResults,   \* runWithAnthropic: the tool_result blocks collected so far
  result,        \* what run / runAgent returned or threw
  last,          \* the step just taken and its inputs
  stats          \* counters: provider calls, requests, dispatches

nameVars == <<nmServer, nmTool, nmFull, nmRoute, nmPc>>

agentVars == <<provider, maxIterations, pc, iterations, messages, toolCalls,
               batch, toolResults, result, last, stats>>

connVars == <<impl, connections, allTools, registry, procs, nextProc, tasks,
              lastDispatch, hist>>

\* The host process around the registry: main() of the agent host, or the
\* extension between activate and deactivate.
VARIABLES host, call, runs

hostVars == <<host, call, runs>>

VARIABLES
  \* ---- a ToolRegistry object (SpecRegistry) ----
  toolRegistry,  \* its fields: tools, categoryIndex, tagIndex
  query,         \* the last search: its options and what it returned
  pairs          \* history: the (server, tool) pairs registered and not unregistered

regVars == <<toolRegistry, query, pairs>>

VARIABLES
  \* ---- connectFromConfig / connectActiveServers ----
  servers,       \* the configuration: server name |-> its ServerConfig
  loop           \* the loop over the active list: position and what it did so far
cfgVars == <<servers, loop>>

VARIABLES
  \* ---- the VS Code extension (SpecExtension) ----
  bridge,        \* `let bridge: AgentBridge | null`: the object it refers to
  currentPanel,  \* `let currentPanel: vscode.WebviewPanel | null`
  chatHistory,   \* `let chatHistory`: the entries kept in memory
  historySize,   \* the setting mcpAgent.historySize
  bridges,       \* every AgentBridge object created: does it hold connections
  panels,        \* every webview panel created, with the state of its script
  jobs,          \* the async calls of the extension host that are awaiting
  transcript     \* every entry ever pushed to chatHistory, in order

extVars ==
  <<bridge, currentPanel, chatHistory, historySize, bridges, panels, jobs,
    transcript>>

vars == <<nameVars, connVars, agentVars, hostVars, regVars, cfgVars, extVars>>

(***************************************************************************)
(* Strings                                                                 *)
(***************************************************************************)

\* Longest server or tool name of the name model.
MaxLen == 3

Chars == {"a", "_"}

Names == UNION {[1..n -> Chars] : n \in 1..MaxLen}

\* The separator of `${serverName}__${name}`.
Sep == <<"_", "_">>

\* A JavaScript value that may be undefined.
Undefined == [def |-> FALSE, val |-> <<>>]

Str(s) == [def |-> TRUE, val |-> s]

\* !x for a string-or-undefined x: undefined and "" are falsy.
Falsy(x) == ~x.def \/ x.val = <<>>

\* `${tool.serverName}__${tool.name}`
FullName(serverName, toolName) == serverName \o Sep \o toolName

\* Index of the first occurrence of "__" in s, 0 when there is none.
IndexOfSep(s) ==
  LET hits == {i \in 1..(Len(s) - 1) : s[i] = "_" /\ s[i + 1] = "_"}
  IN  IF hits = {} THEN 0 ELSE CHOOSE i \in hits : \A j \in hits : i <= j

\* String.prototype.split("__"): every piece, left to right.
RECURSIVE Split(_)
Split(s) ==
  LET i == IndexOfSep(s)
  IN  IF i = 0
      THEN <<s>>
      ELSE <<SubSeq(s, 1, i - 1)>> \o Split(SubSeq(s, i + 2, Len(s)))

\* const [serverName, toolName] = fullName.split("__")
SplitFullName(fullName) ==
  LET parts == Split(fullName)
  IN  [serverName |-> Str(parts[1]),
       toolName   |-> IF Len(parts) >= 2 THEN Str(parts[2]) ELSE Undefined]

\* Mutant: the tool part is not checked.
InvalidFullNameServerOnly(fullName) == Falsy(SplitFullName(fullName).serverName)

\* if (!serverName || !toolName) throw new Error("Ungültiger Tool-Name")
InvalidFullName(fullName) ==
  LET p == SplitFullName(fullName)
  IN  Falsy(p.serverName) \/ Falsy(p.toolName)


(***************************************************************************)
(* Connection registry: McpClientManager and AgentBridge                   *)
(***************************************************************************)

\* Concurrent callers of the registry.
NTasks == 2

\* Processes spawned in one behaviour.
MaxProcs == 2

McpClientManager == "McpClientManager"
AgentBridge == "AgentBridge"

\* The servers of mcp-servers.json ("demo", "filesystem").
KnownServers == {<<"d">>, <<"f">>}

\* What each backend answers to listTools.
ServerTools(n) == IF n = <<"d">> THEN <<(<<"x">>), (<<"y">>)>> ELSE <<(<<"r">>)>>

\* Full names a caller may dispatch: listed tools, a tool no backend has,
\* a server that is not configured, and malformed names.
DispatchNames ==
  { <<"d", "_", "_", "x">>,
    <<"f", "_", "_", "r">>,
    <<"d", "_", "_", "q">>,
    <<"z", "_", "_", "x">>,
    <<"d">>,
    <<"_", "_", "x">>,
    <<"d", "_", "_">>,
    <<"d", "_", "_", "x", "_", "_", "y">> }

\* ---- a JavaScript Map with string keys, as the sequence of its entries ----

MapKeys(m) == {m[i].key : i \in 1..Len(m)}

MapHas(m, k) == k \in MapKeys(m)

MapGet(m, k) == m[CHOOSE i \in 1..Len(m) : m[i].key = k]

\* Map.set: a new key is appended, an existing key keeps its position.
MapSet(m, e) ==
  IF MapHas(m, e.key)
  THEN [i \in 1..Len(m) |-> IF m[i].key = e.key THEN e ELSE m[i]]
  ELSE Append(m, e)

MapDeleteTest(e, k) == e.key # k

MapDelete(m, k) == SelectSeq(m, LAMBDA e : MapDeleteTest(e, k))

\* ---- tasks ----

Tasks == 1..NTasks

Idle == [op |-> "idle", pc |-> "", name |-> <<>>, proc |-> 0, idx |-> 0]

AllIdle == \A t \in Tasks : tasks[t] = Idle

OthersBusy(t) == \E u \in Tasks \ {t} : tasks[u] # Idle

LiveProcs(n) == {p \in procs : p.server = n}

NoDispatch ==
  [fullName |-> <<>>, threw |-> FALSE, error |-> "", sent |-> FALSE,
   serverName |-> <<>>, toolName |-> <<>>, spawned |-> 0, mapChanged |-> FALSE,
   wasConnected |-> FALSE]

ConnIdle ==
  /\ impl = "off"
  /\ connections = <<>>
  /\ allTools = <<>>
  /\ registry = <<>>
  /\ procs = {}
  /\ nextProc = 1
  /\ tasks = <<>>
  /\ lastDispatch = NoDispatch
  /\ hist = [overlap |-> FALSE, failure |-> FALSE]

NoRoute == [threw |-> FALSE, serverName |-> <<>>, toolName |-> <<>>]

NamesIdle ==
  /\ nmServer = <<>>
  /\ nmTool = <<>>
  /\ nmFull = <<>>
  /\ nmRoute = NoRoute
  /\ nmPc = "off"

NoResult == [kind |-> "none"]

NoStep == [step |-> "init", id |-> 0, threw |-> FALSE, failed |-> FALSE, stop |-> ""]

NoStats == [providerCalls |-> 0, requested |-> 0, dispatched |-> 0, allToolRounds |-> TRUE]

AgentIdle ==
  /\ provider = "off"
  /\ maxIterations = 0
  /\ pc = "off"
  /\ iterations = 0
  /\ messages = <<>>
  /\ toolCalls = <<>>
  /\ batch = <<>>
  /\ toolResults = <<>>
  /\ result = NoResult
  /\ last = NoStep
  /\ stats = NoStats

\* What the last disconnect / disconnectAll call of the host found and did
\* before its first await.
NoCall ==
  [op |-> "none", name |-> <<>>, before |-> <<>>, threw |-> FALSE,
   closing |-> FALSE, changed |-> FALSE, repeat |-> FALSE]

HostIdle == host = "off" /\ call = NoCall /\ runs = <<>>

\* `new ToolRegistry()`: three empty maps.
NewToolRegistry == [tools |-> <<>>, categoryIndex |-> <<>>, tagIndex |-> <<>>]

NoQuery == [asked |-> FALSE]

RegIdle == toolRegistry = NewToolRegistry /\ query = NoQuery /\ pairs = {}

\* No connectFromConfig / connectActiveServers call.
NoLoop == [pc |-> "off"]

CfgIdle == servers = <<>> /\ loop = NoLoop

\* `null` in a variable that refers to an object.
NoObject == 0

\* The extension is not activated.
ExtIdle ==
  /\ bridge = NoObject
  /\ currentPanel = NoObject
  /\ chatHistory = <<>>
  /\ historySize = 0
  /\ bridges = <<>>
  /\ panels = <<>>
  /\ jobs = {}
  /\ transcript = <<>>

(***************************************************************************)
(* Tool dispatch                                                           *)
(***************************************************************************)

Thrown(msg) ==
  [threw |-> TRUE, error |-> msg, sent |-> FALSE, serverName |-> <<>>, toolName |-> <<>>]

\* connection.client.callTool({name, arguments}): the request goes to the
\* backend, which answers or reports an error.
ClientCallTool(serverName, toolName, backendOk) ==
  [threw |-> ~backendOk, error |-> IF backendOk THEN "" ELSE "backend error",
   sent |-> TRUE, serverName |-> serverName, toolName |-> toolName]

\* McpClientManager.callTool
CallTool(conns, serverName, toolName, backendOk) ==
  IF ~MapHas(conns, serverName)
  THEN Thrown("Server nicht verbunden")
  ELSE ClientCallTool(serverName, toolName, backendOk)

\* McpClientManager.callToolByFullName
CallToolByFullName(conns, fullName, backendOk) ==
  IF InvalidFullName(fullName)
  THEN Thrown("Ungueltiger Tool-Name")
  ELSE CallTool(conns, SplitFullName(fullName).serverName.val,
                SplitFullName(fullName).toolName.val, backendOk)

\* AgentBridge.callTool
BridgeCallTool(conns, fullName, backendOk) ==
  IF InvalidFullName(fullName)
  THEN Thrown("Ungueltiger Tool-Name")
  ELSE IF ~MapHas(conns, SplitFullName(fullName).serverName.val)
  THEN Thrown("Server nicht verbunden")
  ELSE ClientCallTool(SplitFullName(fullName).serverName.val,
                      SplitFullName(fullName).toolName.val, backendOk)

DispatchTool(cls, conns, fullName, backendOk) ==
  IF cls = McpClientManager
  THEN CallToolByFullName(conns, fullName, backendOk)
  ELSE BridgeCallTool(conns, fullName, backendOk)

(***************************************************************************)
(* Catalogs                                                                *)
(***************************************************************************)

\* One server's tools as getAllTools lists them: {...tool, serverName}.
ToolsOf(serverName, tools) ==
  [i \in 1..Len(tools) |-> [serverName |-> serverName, name |-> tools[i]]]

\* McpClientManager.getAllTools
RECURSIVE GetAllTools(_)
GetAllTools(conns) ==
  IF conns = <<>>
  THEN <<>>
  ELSE ToolsOf(Head(conns).key, Head(conns).tools) \o GetAllTools(Tail(conns))

\* McpClientManager.getToolsForLLM: the names only.
GetToolsForLLM(conns) ==
  [i \in 1..Len(GetAllTools(conns)) |->
     FullName(GetAllTools(conns)[i].serverName, GetAllTools(conns)[i].name)]

\* ToolRegistry.register: tools.set(`${serverName}__${name}`, tool)
Register(reg, tool) ==
  MapSet(reg, [key |-> FullName(tool.serverName, tool.name),
               serverName |-> tool.serverName, name |-> tool.name])

\* main(): for (const tool of mcpClient.getAllTools()) registry.register(tool)
RECURSIVE RegisterEach(_, _)
RegisterEach(reg, tools) ==
  IF tools = <<>> THEN reg ELSE RegisterEach(Register(reg, Head(tools)), Tail(tools))

\* ToolRegistry.getForLLM(): the names the agent hands to the provider.
GetForLLM(reg) ==
  [i \in 1..Len(reg) |-> FullName(reg[i].serverName, reg[i].name)]

\* AgentBridge.runWith*: this.allTools.map(t => `${t.serverName}__${t.name}`)
BridgeToolsForLLM(all) ==
  [i \in 1..Len(all) |-> FullName(all[i].serverName, all[i].name)]

Range(f) == {f[i] : i \in DOMAIN f}

\* The tool names offered to the completion provider.
CatalogForLLM ==
  IF impl = McpClientManager
  THEN Range(GetForLLM(registry))
  ELSE Range(BridgeToolsForLLM(allTools))

(***************************************************************************)
(* ToolRegistry: register, unregisterServer, search, getStats              *)
(***************************************************************************)

\* priority?: number
NoPriority == [set |-> FALSE, val |-> 0]

Priority(n) == [set |-> TRUE, val |-> n]

\* A RegisteredTool; category "" and tags <<>> stand for a field left out.
RegisteredTool(serverName, name, category, tags, priority) ==
  [serverName |-> serverName, name |-> name, category |-> category,
   tags |-> tags, priority |-> priority]

\* The tools the registry is fed with: d__x in two versions, tools of equal
\* priority (a missing one counts 0), and two (server, tool) pairs whose
\* full name is spelled "a___a".
KnownTools ==
  { RegisteredTool(<<"d">>, <<"x">>, "c1", <<"t1", "t2">>, Priority(1)),
    RegisteredTool(<<"d">>, <<"x">>, "", <<"t2">>, NoPriority),
    RegisteredTool(<<"d">>, <<"y">>, "c1", <<"t1">>, NoPriority),
    RegisteredTool(<<"a", "_">>, <<"a">>, "", <<>>, Priority(0)),
    RegisteredTool(<<"a">>, <<"_", "a">>, "", <<"t1">>, Priority(2)) }

\* index.get(k).add(fullName), with `index.set(k, new Set())` before it
\* when k is new.
IndexAdd(index, k, fullName) ==
  IF k \in DOMAIN index
  THEN [index EXCEPT ![k] = @ \cup {fullName}]
  ELSE (k :> {fullName}) @@ index

\* index.get(k)?.delete(fullName)
IndexDelete(index, k, fullName) ==
  IF k \in DOMAIN index
  THEN [index EXCEPT ![k] = @ \ {fullName}]
  ELSE index

RECURSIVE IndexAddEach(_, _, _)
\* for (const tag of tool.tags) ... add(fullName)
IndexAddEach(index, ks, fullName) ==
  IF ks = <<>> THEN index
  ELSE IndexAddEach(IndexAdd(index, Head(ks), fullName), Tail(ks), fullName)

RECURSIVE IndexDeleteEach(_, _, _)
\* for (const tag of tool.tags) ... delete(fullName)
IndexDeleteEach(index, ks, fullName) ==
  IF ks = <<>> THEN index
  ELSE IndexDeleteEach(IndexDelete(index, Head(ks), fullName), Tail(ks), fullName)

\* ToolRegistry.register: tools.set(fullName, tool), then the category and
\* the tags of the tool are added to the indexes.
ToolRegistryRegister(R, tool) ==
  LET fullName == FullName(tool.serverName, tool.name)
  IN  [tools |-> MapSet(R.tools,
                   [key |-> fullName, serverName |-> tool.serverName,
                    name |-> tool.name, category |-> tool.category,
                    tags |-> tool.tags, priority |-> tool.priority]),
       categoryIndex |-> IF tool.category # ""
                         THEN IndexAdd(R.categoryIndex, tool.category, fullName)
                         ELSE R.categoryIndex,
       tagIndex |-> IndexAddEach(R.tagIndex, tool.tags, fullName)]

\* unregisterServer, one name of toRemove: the tool stored under it is
\* taken out of the indexes of its category and tags, then deleted.
UnregisterTool(R, fullName) ==
  LET tool == MapGet(R.tools, fullName)
  IN  [tools |-> MapDelete(R.tools, fullName),
       categoryIndex |-> IF tool.category # ""
                         THEN IndexDelete(R.categoryIndex, tool.category, fullName)
                         ELSE R.categoryIndex,
       tagIndex |-> IndexDeleteEach(R.tagIndex, tool.tags, fullName)]

RECURSIVE UnregisterEach(_, _)
UnregisterEach(R, toRemove) ==
  IF toRemove = <<>> THEN R
  ELSE UnregisterEach(UnregisterTool(R, Head(toRemove)), Tail(toRemove))

\* The keys of a map, in its order.
KeySeq(m) == [i \in 1..Len(m) |-> m[i].key]

\* ToolRegistry.unregisterServer
UnregisterServer(R, serverName) ==
  UnregisterEach(R, KeySeq(SelectSeq(R.tools, LAMBDA t : t.serverName = serverName)))


(***************************************************************************)
(* SpecConn: connect, disconnect and dispatch, interleaved at the awaits   *)
(***************************************************************************)

ConnInit ==
  /\ NamesIdle
  /\ RegIdle
  /\ CfgIdle
  /\ ExtIdle
  /\ AgentIdle
  /\ HostIdle
  /\ impl \in {McpClientManager, AgentBridge}
  /\ connections = <<>>
  /\ allTools = <<>>
  /\ registry = <<>>
  /\ procs = {}
  /\ nextProc = 1
  /\ tasks = [t \in Tasks |-> Idle]
  /\ lastDispatch = NoDispatch
  /\ hist = [overlap |-> FALSE, failure |-> FALSE]

Started(t) == [hist EXCEPT !.overlap = @ \/ OthersBusy(t)]

Failed == [hist EXCEPT !.failure = TRUE]

\* AgentBridge.connectServer: "Bereits verbunden?"
AlreadyConnected(name) == impl = AgentBridge /\ MapHas(connections, name)

\* connectStdio / connectServer up to `await client.connect(transport)`:
\* the transport spawns the backend process, or fails to.
ConnectBegin(t, name, spawnOk) ==
  /\ tasks[t] = Idle
  /\ IF AlreadyConnected(name)
     THEN /\ hist' = hist
          /\ UNCHANGED <<tasks, procs, nextProc>>
     ELSE /\ nextProc <= MaxProcs
          /\ IF spawnOk
             THEN /\ procs' = procs \cup {[id |-> nextProc, server |-> name]}
                  /\ nextProc' = nextProc + 1
                  /\ tasks' = [tasks EXCEPT ![t] =
                       [op |-> "connect", pc |-> "handshake", name |-> name,
                        proc |-> nextProc, idx |-> 0]]
                  /\ hist' = Started(t)
             ELSE /\ hist' = Failed
                  /\ UNCHANGED <<tasks, procs, nextProc>>
  /\ UNCHANGED <<impl, connections, allTools, registry, lastDispatch>>
  /\ UNCHANGED <<nameVars, agentVars, hostVars, regVars>>

\* A connectStdio / connectServer call that is not made by the loop of
\* connectFromConfig / connectActiveServers.
ConnectStart(t, name, spawnOk) ==
  /\ ConnectBegin(t, name, spawnOk)
  /\ UNCHANGED <<cfgVars, extVars>>

\* `await client.connect(transport)` settles: the handshake succeeded, or it
\* failed and the call throws; whether the SDK client then ends the process
\* is not decided by this code.
ConnectHandshake(t, ok, cleaned) ==
  /\ tasks[t].op = "connect" /\ tasks[t].pc = "handshake"
  /\ IF ok
     THEN /\ tasks' = [tasks EXCEPT ![t].pc = "listTools"]
          /\ UNCHANGED <<procs, hist>>
     ELSE /\ tasks' = [tasks EXCEPT ![t] = Idle]
          /\ procs' = IF cleaned
                      THEN {p \in procs : p.id # tasks[t].proc}
                      ELSE procs
          /\ hist' = Failed
  /\ UNCHANGED <<impl, connections, allTools, registry, nextProc, lastDispatch>>
  /\ UNCHANGED <<nameVars, agentVars, hostVars, regVars, cfgVars, extVars>>

NewConnection(t) ==
  [key |-> tasks[t].name, proc |-> tasks[t].proc, tools |-> ServerTools(tasks[t].name)]

\* Mutant: the connection is stored before its tools are listed.
ConnectThrowsAfterSet(conns, connection) == MapSet(conns, connection)

\* listTools / listResources throws: connectStdio and connectServer are
\* left before this.connections.set, the map is as it was.
ConnectThrows(conns, connection) == conns

\* `await client.listTools()` settles. connectServer then stores the
\* connection and appends its tools to allTools; connectStdio goes on to
\* listResources. A failure throws with nothing closed.
ConnectListTools(t, ok) ==
  /\ tasks[t].op = "connect" /\ tasks[t].pc = "listTools"
  /\ IF ~ok
     THEN /\ tasks' = [tasks EXCEPT ![t] = Idle]
          /\ hist' = Failed
          /\ connections' = ConnectThrows(connections, NewConnection(t))
          /\ UNCHANGED allTools
     ELSE IF impl = AgentBridge
     THEN /\ connections' = MapSet(connections, NewConnection(t))
          /\ allTools' = allTools \o ToolsOf(tasks[t].name, ServerTools(tasks[t].name))
          /\ tasks' = [tasks EXCEPT ![t] = Idle]
          /\ hist' = hist
     ELSE /\ tasks' = [tasks EXCEPT ![t].pc = "listResources"]
          /\ UNCHANGED <<connections, allTools, hist>>
  /\ UNCHANGED <<impl, registry, procs, nextProc, lastDispatch>>
  /\ UNCHANGED <<nameVars, agentVars, hostVars, regVars, cfgVars, extVars>>

\* connectStdio: `await client.listResources()` settles, then
\* this.connections.set(name, connection).
ConnectListResources(t, ok) ==
  /\ tasks[t].op = "connect" /\ tasks[t].pc = "listResources"
  /\ IF ok
     THEN /\ connections' = MapSet(connections, NewConnection(t))
          /\ hist' = hist
     ELSE /\ hist' = Failed
          /\ connections' = ConnectThrows(connections, NewConnection(t))
  /\ tasks' = [tasks EXCEPT ![t] = Idle]
  /\ UNCHANGED <<impl, allTools, registry, procs, nextProc, lastDispatch>>
  /\ UNCHANGED <<nameVars, agentVars, hostVars, regVars, cfgVars, extVars>>

\* Mutant: a name that is not connected is an error, as it is in callTool.
DisconnectEntryStrict(conns, name) ==
  IF ~MapHas(conns, name)
  THEN [threw |-> TRUE, closing |-> FALSE]
  ELSE [threw |-> FALSE, closing |-> TRUE]

\* disconnect: `const connection = this.connections.get(serverName);
\* if (!connection) return;`
DisconnectEntry(conns, name) ==
  IF ~MapHas(conns, name)
  THEN [threw |-> FALSE, closing |-> FALSE]
  ELSE [threw |-> FALSE, closing |-> TRUE]

\* McpClientManager.disconnect up to `await connection.client.close()`.
DisconnectBegin(t, name) ==
  /\ impl = McpClientManager
  /\ tasks[t] = Idle
  /\ IF DisconnectEntry(connections, name).closing
     THEN /\ tasks' = [tasks EXCEPT ![t] =
               [op |-> "disconnect", pc |-> "closing", name |-> name,
                proc |-> MapGet(connections, name).proc, idx |-> 0]]
          /\ hist' = Started(t)
     ELSE /\ hist' = IF DisconnectEntry(connections, name).threw THEN Failed ELSE hist
          /\ UNCHANGED tasks
  /\ UNCHANGED <<impl, connections, allTools, registry, procs, nextProc, lastDispatch>>
  /\ UNCHANGED <<nameVars, agentVars, regVars, cfgVars, extVars>>

\* A disconnect called while the host goes on.
DisconnectStart(t, name) == DisconnectBegin(t, name) /\ UNCHANGED hostVars

\* close() settles: the process of the closed client is gone and the name is
\* deleted from the map; or close() throws and the entry stays.
DisconnectClose(t, ok, killed) ==
  /\ tasks[t].op = "disconnect" /\ tasks[t].pc = "closing"
  /\ IF ok
     THEN /\ procs' = {p \in procs : p.id # tasks[t].proc}
          /\ connections' = MapDelete(connections, tasks[t].name)
          /\ hist' = hist
     ELSE /\ procs' = IF killed
                      THEN {p \in procs : p.id # tasks[t].proc}
                      ELSE procs
          /\ hist' = Failed
          /\ UNCHANGED connections
  /\ tasks' = [tasks EXCEPT ![t] = Idle]
  /\ UNCHANGED <<impl, allTools, registry, nextProc, lastDispatch>>
  /\ UNCHANGED <<nameVars, agentVars, hostVars, regVars, cfgVars, extVars>>

\* A disconnectAll that is closing the i-th entry of the map.
ClosingEntry(i) ==
  [op |-> "disconnectAll", pc |-> "closing", name |-> connections[i].key,
   proc |-> connections[i].proc, idx |-> i]

\* this.connections.clear(): the map iterators of the other disconnectAll
\* calls have nothing left before them and see what is added from now on.
AfterClear(t) ==
  [u \in Tasks |->
     IF u = t THEN Idle
     ELSE IF tasks[u].op = "disconnectAll" THEN [tasks[u] EXCEPT !.idx = 0]
     ELSE tasks[u]]

\* disconnectAll up to its first `await`: the iteration over the map
\* starts; with no entry McpClientManager.disconnectAll returns and
\* AgentBridge.disconnectAll clears the map and allTools.
DisconnectAllBegin(t) ==
  /\ tasks[t] = Idle
  /\ IF connections # <<>>
     THEN /\ tasks' = [tasks EXCEPT ![t] = ClosingEntry(1)]
          /\ hist' = Started(t)
          /\ UNCHANGED <<connections, allTools>>
     ELSE /\ tasks' = IF impl = AgentBridge THEN AfterClear(t) ELSE tasks
          /\ allTools' = IF impl = AgentBridge THEN <<>> ELSE allTools
          /\ UNCHANGED <<connections, hist>>
  /\ UNCHANGED <<impl, registry, procs, nextProc, lastDispatch>>
  /\ UNCHANGED <<nameVars, agentVars, regVars, cfgVars, extVars>>

\* A disconnectAll called while the host goes on.
DisconnectAllStart(t) == DisconnectAllBegin(t) /\ UNCHANGED hostVars

\* close() settles inside disconnectAll, and the iteration goes on.
\* McpClientManager: disconnect deletes the name and the next key of the
\* map is closed; a close() that throws ends disconnectAll with the rest
\* still connected. AgentBridge: a close() that throws is logged; after the
\* last entry the map and allTools are cleared.
DisconnectAllClose(t, ok, killed) ==
  /\ tasks[t].op = "disconnectAll" /\ tasks[t].pc = "closing"
  /\ procs' = IF ok \/ killed THEN {p \in procs : p.id # tasks[t].proc} ELSE procs
  /\ hist' = IF ok THEN hist ELSE Failed
  /\ IF impl = McpClientManager
     THEN /\ connections' = IF ok THEN MapDelete(connections, tasks[t].name)
                                  ELSE connections
          /\ tasks' = [tasks EXCEPT ![t] =
               IF ok /\ connections' # <<>>
               THEN [op |-> "disconnectAll", pc |-> "closing",
                     name |-> connections'[1].key, proc |-> connections'[1].proc,
                     idx |-> 1]
               ELSE Idle]
          /\ UNCHANGED allTools
     ELSE IF tasks[t].idx < Len(connections)
     THEN /\ tasks' = [tasks EXCEPT ![t] = ClosingEntry(tasks[t].idx + 1)]
          /\ UNCHANGED <<connections, allTools>>
     ELSE /\ connections' = <<>>
          /\ allTools' = <<>>
          /\ tasks' = AfterClear(t)
  /\ UNCHANGED <<impl, registry, nextProc, lastDispatch>>
  /\ UNCHANGED <<nameVars, agentVars, hostVars, regVars, cfgVars, extVars>>

\* main(): the ToolRegistry is filled from getAllTools() once
\* connectFromConfig has returned.
RegisterAll ==
  /\ impl = McpClientManager
  /\ AllIdle
  /\ registry' = RegisterEach(registry, GetAllTools(connections))
  /\ registry' # registry
  /\ UNCHANGED <<impl, connections, allTools, procs, nextProc, tasks, lastDispatch, hist>>
  /\ UNCHANGED <<nameVars, agentVars, hostVars, regVars, cfgVars, extVars>>

\* The process behind a connection is running.
ProcAlive(connection) == \E p \in procs : p.id = connection.proc

\* The backend a full name is routed to can answer: a request to a
\* connection whose process is gone fails.
BackendAlive(fullName) ==
  MapHas(connections, SplitFullName(fullName).serverName.val)
  => ProcAlive(MapGet(connections, SplitFullName(fullName).serverName.val))

\* The process of a backend crashes. Nothing in McpClientManager or
\* AgentBridge listens for it (no onclose / onerror / exit handler).
Crash(p) ==
  /\ p \in procs
  /\ procs' = procs \ {p}
  /\ UNCHANGED <<impl, connections, allTools, registry, nextProc, tasks, lastDispatch, hist>>
  /\ UNCHANGED <<nameVars, agentVars, hostVars, regVars, cfgVars, extVars>>

\* McpClientManager.getStatus / AgentBridge.getStatus
GetStatus(conns) ==
  [n \in MapKeys(conns) |->
     [connected |-> TRUE, tools |-> Len(MapGet(conns, n).tools)]]

\* callToolByFullName / AgentBridge.callTool with a name the LLM asked for.
\* The call reads the connection map and talks to one backend at most; the
\* record keeps what it did to the map and to the set of processes.
Dispatch(fullName, backendOk) ==
  /\ UNCHANGED <<impl, connections, allTools, registry, procs, nextProc, tasks, hist>>
  /\ LET r == DispatchTool(impl, connections, fullName,
                           backendOk /\ BackendAlive(fullName))
     IN  lastDispatch' =
           [fullName |-> fullName,
            threw |-> r.threw,
            error |-> r.error,
            sent |-> r.sent,
            serverName |-> r.serverName,
            toolName |-> r.toolName,
            spawned |-> Cardinality(procs') - Cardinality(procs),
            mapChanged |-> connections' # connections,
            wasConnected |-> MapHas(connections, SplitFullName(fullName).serverName.val)]
  /\ UNCHANGED <<nameVars, agentVars, hostVars, regVars, cfgVars, extVars>>

ConnNext ==
  \/ \E t \in Tasks, n \in KnownServers, ok \in BOOLEAN : ConnectStart(t, n, ok)
  \/ \E t \in Tasks, ok \in BOOLEAN, cleaned \in BOOLEAN : ConnectHandshake(t, ok, cleaned)
  \/ \E t \in Tasks, ok \in BOOLEAN : ConnectListTools(t, ok)
  \/ \E t \in Tasks, ok \in BOOLEAN : ConnectListResources(t, ok)
  \/ \E t \in Tasks, n \in KnownServers : DisconnectStart(t, n)
  \/ \E t \in Tasks, ok \in BOOLEAN, killed \in BOOLEAN : DisconnectClose(t, ok, killed)
  \/ \E t \in Tasks : DisconnectAllStart(t)
  \/ \E t \in Tasks, ok \in BOOLEAN, killed \in BOOLEAN : DisconnectAllClose(t, ok, killed)
  \/ RegisterAll

SpecConn == ConnInit /\ [][ConnNext]_vars

(***************************************************************************)
(* SpecDispatch: one caller connects and disconnects servers one call      *)
(* after the other and dispatches tool calls by full name in between.      *)
(***************************************************************************)

DispatchNext ==
  \/ \E n \in KnownServers, ok \in BOOLEAN : ConnectStart(1, n, ok)
  \/ \E ok \in BOOLEAN, cleaned \in BOOLEAN : ConnectHandshake(1, ok, cleaned)
  \/ \E ok \in BOOLEAN : ConnectListTools(1, ok)
  \/ \E ok \in BOOLEAN : ConnectListResources(1, ok)
  \/ \E n \in KnownServers : DisconnectStart(1, n)
  \/ \E ok \in BOOLEAN, killed \in BOOLEAN : DisconnectClose(1, ok, killed)
  \/ DisconnectAllStart(1)
  \/ \E ok \in BOOLEAN, killed \in BOOLEAN : DisconnectAllClose(1, ok, killed)
  \/ \E p \in procs : Crash(p)
  \/ \E f \in DispatchNames, ok \in BOOLEAN : Dispatch(f, ok)

SpecDispatch == ConnInit /\ [][DispatchNext]_vars

(***************************************************************************)
(* Claims about the connection registry and the dispatch                   *)
(***************************************************************************)

\* The names getToolsForLLM would list for the connected backends.
ConnectedToolNames == Range(GetToolsForLLM(connections))

\* C4: concurrent connect calls for one name never leave two live backend
\* processes for that name (no connect attempt having failed).
C4_OneProcessPerName ==
  ~hist.failure => \A n \in KnownServers : Cardinality(LiveProcs(n)) <= 1

\* A full name with no "__", with nothing before the first "__" or with
\* nothing after it.
Malformed(fullName) ==
  \/ IndexOfSep(fullName) = 0
  \/ IndexOfSep(fullName) = 1
  \/ IndexOfSep(fullName) + 1 = Len(fullName)

\* The text before the first "__".
ServerPart(fullName) == SubSeq(fullName, 1, IndexOfSep(fullName) - 1)

Dispatched == lastDispatch.fullName # <<>>

\* C5: a dispatch to a configured backend that is not connected connects
\* that backend once and then sends one tool call to it.
C5_LazyConnect ==
  ( /\ Dispatched
    /\ ~Malformed(lastDispatch.fullName)
    /\ ServerPart(lastDispatch.fullName) \in KnownServers
    /\ ~lastDispatch.wasConnected )
  => (lastDispatch.spawned = 1 /\ lastDispatch.sent)

\* C6: every tool in the catalog offered to the completion provider belongs
\* to the snapshot of a backend that is connected now; a disconnected
\* backend's tools are gone from it.
C6_CatalogOfConnected == CatalogForLLM \subseteq ConnectedToolNames

\* C8: a dispatch of a malformed name, or of a name whose backend is not
\* configured, throws, spawns nothing, sends nothing and leaves the
\* connection map as it was.
C8_MalformedFails ==
  ( /\ Dispatched
    /\ \/ Malformed(lastDispatch.fullName)
       \/ ServerPart(lastDispatch.fullName) \notin KnownServers )
  => ( /\ lastDispatch.threw
       /\ lastDispatch.spawned = 0
       /\ ~lastDispatch.sent
       /\ ~lastDispatch.mapChanged )

\* A malformed name was dispatched while the server it starts with was
\* connected, and the call threw.
C8_Witness ==
  /\ Dispatched
  /\ Malformed(lastDispatch.fullName)
  /\ lastDispatch.wasConnected
  /\ lastDispatch.threw

\* C9: after connect(n); connect(n), one call after the other and none
\* failing, one connection and one live process exist for n.
C9_DuplicateConnect ==
  (~hist.overlap /\ ~hist.failure /\ AllIdle)
  => \A n \in MapKeys(connections) : Cardinality(LiveProcs(n)) = 1

(***************************************************************************)
(* SpecNames: one connected server with one tool; the name is listed for   *)
(* the LLM and then called back by its full name.                          *)
(***************************************************************************)

NamesInit ==
  /\ ConnIdle
  /\ AgentIdle
  /\ HostIdle
  /\ RegIdle
  /\ CfgIdle
  /\ ExtIdle
  /\ nmServer \in Names
  /\ nmTool \in Names
  /\ nmFull = <<>>
  /\ nmRoute = NoRoute
  /\ nmPc = "start"

\* getToolsForLLM / getForLLM: the name of the tool as the LLM sees it.
NmGetToolsForLLM ==
  /\ nmPc = "start"
  /\ nmFull' = FullName(nmServer, nmTool)
  /\ nmPc' = "listed"
  /\ UNCHANGED <<nmServer, nmTool, nmRoute>>
  /\ UNCHANGED <<connVars, agentVars, hostVars, regVars, cfgVars, extVars>>

\* callToolByFullName(fullName): split, reject, or route to callTool.
NmCallToolByFullName ==
  /\ nmPc = "listed"
  /\ LET p == SplitFullName(nmFull)
     IN  nmRoute' = IF InvalidFullName(nmFull)
                    THEN [threw |-> TRUE, serverName |-> <<>>, toolName |-> <<>>]
                    ELSE [threw |-> FALSE, serverName |-> p.serverName.val,
                          toolName |-> p.toolName.val]
  /\ nmPc' = "called"
  /\ UNCHANGED <<nmServer, nmTool, nmFull>>
  /\ UNCHANGED <<connVars, agentVars, hostVars, regVars, cfgVars, extVars>>

NamesNext == NmGetToolsForLLM \/ NmCallToolByFullName

SpecNames == NamesInit /\ [][NamesNext]_vars

\* C7: every listed tool's namespaced name splits back into the server name
\* and the tool name it was composed from, so the call is routed to that
\* server with that tool name.
C7_RoundTrip ==
  nmPc = "called" =>
    /\ ~nmRoute.threw
    /\ nmRoute.serverName = nmServer
    /\ nmRoute.toolName = nmTool

(***************************************************************************)
(* The agent loop: McpAgent.run and AgentBridge.runAgent                   *)
(***************************************************************************)

\* Largest config.maxIterations of a McpAgent.
MaxIter == 2

\* Tool invocations the provider may request freely; beyond them it can
\* only insist on the tool of InsistBatch, answer, or fail.
MaxRequests == 2

\* AgentBridge.runWithOpenAI / runWithAnthropic: const maxIterations = 10
BridgeMaxIterations == 10

HostIsAgent == impl = McpClientManager

ToolX == <<"d", "_", "_", "x">>
ToolY == <<"d", "_", "_", "y">>
ToolOfUnknownServer == <<"z", "_", "_", "x">>
NameWithoutSep == <<"d">>

Call(name, argsOk) == [name |-> name, argsOk |-> argsOk]

\* A provider that keeps asking for a tool that does not exist.
InsistBatch == <<Call(ToolOfUnknownServer, TRUE)>>

\* The tool requests of one provider response: function.arguments is a
\* string that parses as JSON (argsOk) or does not.
Batches ==
  { <<Call(ToolX, TRUE)>>,
    InsistBatch,
    <<Call(ToolOfUnknownServer, TRUE), Call(ToolY, TRUE)>>,
    <<Call(ToolX, FALSE), Call(ToolY, TRUE)>>,
    <<Call(NameWithoutSep, TRUE)>>,
    <<>> }

\* What the provider answers. stop: "final" is finish_reason "stop" /
\* stop_reason "end_turn"; "tools" is "tool_calls" / "tool_use"; "other" is
\* any other reason ("length" / "max_tokens"). hasCalls: message.tool_calls
\* is defined.
Responses ==
  { [stop |-> "final", hasCalls |-> FALSE, calls |-> <<>>],
    [stop |-> "final", hasCalls |-> TRUE, calls |-> <<Call(ToolX, TRUE)>>],
    [stop |-> "other", hasCalls |-> FALSE, calls |-> <<>>] }
  \cup {[stop |-> "tools", hasCalls |-> TRUE, calls |-> b] : b \in Batches}

\* The provider gives each requested invocation an id of its own.
WithIds(calls, base) ==
  [i \in 1..Len(calls) |->
     [id |-> base + i, name |-> calls[i].name, argsOk |-> calls[i].argsOk]]

Ids(reqs) == [i \in 1..Len(reqs) |-> reqs[i].id]

Turn(role, calls, results) == [role |-> role, calls |-> calls, results |-> results]

\* messages as run starts: OpenAI gets the system prompt as a message.
InitialMessages(p) ==
  IF p = "openai"
  THEN <<Turn("system", <<>>, <<>>), Turn("user", <<>>, <<>>)>>
  ELSE <<Turn("user", <<>>, <<>>)>>

\* The answer is final: `finish_reason === "stop" || !message.tool_calls`
\* (McpAgent), `... || !message.tool_calls?.length` (AgentBridge),
\* `stop_reason === "end_turn"` (both Anthropic loops).
IsFinal(agent, p, resp) ==
  IF p = "anthropic" THEN resp.stop = "final"
  ELSE IF agent THEN resp.stop = "final" \/ ~resp.hasCalls
  ELSE resp.stop = "final" \/ Len(resp.calls) = 0

\* The tool requests are processed: `message.tool_calls &&
\* message.tool_calls.length > 0`, `stop_reason === "tool_use"`; in
\* AgentBridge.runWithOpenAI whatever was not final.
ProcessesTools(agent, p, resp) ==
  IF p = "anthropic" THEN resp.stop = "tools"
  ELSE IF agent THEN resp.hasCalls /\ Len(resp.calls) > 0
  ELSE TRUE

AgentResult(success, answer, iters, error) ==
  [kind |-> "AgentResult", success |-> success, answer |-> answer,
   iterations |-> iters, error |-> error]

\* Mutant: the catch block reports the failure without the error.
ProviderErrorResultNoError(agent, iters) ==
  IF agent
  THEN AgentResult(FALSE, "Fehler", iters, "")
  ELSE [kind |-> "exception", error |-> "provider error"]

\* The provider call throws. McpAgent catches and returns; in AgentBridge
\* nothing catches and runAgent rejects.
ProviderErrorResult(agent, iters) ==
  IF agent
  THEN AgentResult(FALSE, "Fehler", iters, "provider error")
  ELSE [kind |-> "exception", error |-> "provider error"]

\* Mutant: the pass that gets the final answer is not counted.
FinalResultUncounted(agent, iters) ==
  IF agent
  THEN AgentResult(TRUE, "text", iters - 1, "")
  ELSE [kind |-> "string", answer |-> "text"]

\* The final answer: {success: true, answer, toolCalls, iterations}; in
\* AgentBridge the text alone.
FinalResult(agent, iters) ==
  IF agent
  THEN AgentResult(TRUE, "text", iters, "")
  ELSE [kind |-> "string", answer |-> "text"]

MaxIterationsResult(agent, iters) ==
  IF agent
  THEN AgentResult(FALSE, "Maximale Iterationen erreicht", iters, "Max iterations reached")
  ELSE [kind |-> "string", answer |-> "Maximale Iterationen erreicht."]

\* McpAgent.runWithOpenAI parses function.arguments before its inner try.
ParseThrowsOutOfLoop(agent, p, req) == agent /\ p = "openai" /\ ~req.argsOk

\* AgentBridge.runWithOpenAI parses inside the try of the tool call.
ParseFailsAsToolError(agent, p, req) == ~agent /\ p = "openai" /\ ~req.argsOk

\* The tool call of one requested invocation.
ToolOutcome(agent, p, conns, req, backendOk) ==
  IF ParseFailsAsToolError(agent, p, req)
  THEN Thrown("JSON parse error")
  ELSE DispatchTool(IF agent THEN McpClientManager ELSE AgentBridge,
                    conns, req.name, backendOk)

\* Mutant: the catch branch builds its turn from the result, not the error.
ToolResultWithoutError(req, out) == [id |-> req.id, error |-> ""]

\* The tool-result for an invocation: JSON.stringify(result), or
\* JSON.stringify({error: errorMessage}) from the catch branch.
ToolResult(req, out) == [id |-> req.id, error |-> out.error]

\* Mutant: the catch branch records the call without its error.
ToolCallRecordWithoutError(req, out) == [tool |-> req.name, error |-> ""]

\* toolCalls.push({tool, args, result}) (McpAgent only)
ToolCallRecord(req, out) == [tool |-> req.name, error |-> out.error]

\* Mutant: the for loop is left after its first tool call.
AfterFirstToolCall(rest) == "loop"

\* The for loop over the requested invocations goes on while there are
\* any; after the last one the while loop is next.
AfterToolCall(rest) == IF rest = <<>> THEN "loop" ELSE "tools"

\* Mutant: the user turn carries the newest tool_result only.
ToolResultsTurnNewestOnly(results) == Turn("user", <<>>, <<results[Len(results)]>>)

\* messages.push({ role: "user", content: toolResults })
ToolResultsTurn(results) == Turn("user", <<>>, results)

AgentConnections ==
  { <<>>, <<[key |-> <<"d">>, proc |-> 1, tools |-> ServerTools(<<"d">>)]>> }

AgentInit ==
  /\ NamesIdle
  /\ RegIdle
  /\ CfgIdle
  /\ ExtIdle
  /\ HostIdle
  /\ impl \in {McpClientManager, AgentBridge}
  /\ connections \in AgentConnections
  /\ allTools = IF HostIsAgent THEN <<>> ELSE GetAllTools(connections)
  /\ registry = IF HostIsAgent THEN RegisterEach(<<>>, GetAllTools(connections)) ELSE <<>>
  /\ procs = {[id |-> connections[i].proc, server |-> connections[i].key] :
                i \in 1..Len(connections)}
  /\ nextProc = Len(connections) + 1
  /\ tasks = [t \in Tasks |-> Idle]
  /\ lastDispatch = NoDispatch
  /\ hist = [overlap |-> FALSE, failure |-> FALSE]
  /\ provider \in {"openai", "anthropic"}
  /\ maxIterations \in IF HostIsAgent THEN 0..MaxIter ELSE {BridgeMaxIterations}
  /\ pc = "loop"
  /\ iterations = 0
  /\ messages = InitialMessages(provider)
  /\ toolCalls = <<>>
  /\ batch = <<>>
  /\ toolResults = <<>>
  /\ result = NoResult
  /\ last = NoStep
  /\ stats = NoStats

\* The provider may ask for these calls now.
WithinBudget(resp) ==
  \/ stats.requested + Len(resp.calls) <= MaxRequests
  \/ resp.stop = "tools" /\ resp.calls = InsistBatch

\* One pass of `while (iterations < maxIterations)` up to the first tool
\* call: iterations++, the provider call, and what is made of its answer.
ProviderCall(resp, ok) ==
  /\ pc = "loop"
  /\ iterations < maxIterations
  /\ WithinBudget(resp)
  /\ iterations' = iterations + 1
  /\ last' = [step |-> "provider", id |-> 0, threw |-> FALSE, failed |-> ~ok,
              stop |-> IF ok THEN resp.stop ELSE ""]
  /\ IF ~ok
     THEN /\ pc' = "done"
          /\ result' = ProviderErrorResult(HostIsAgent, iterations')
          /\ stats' = [stats EXCEPT !.providerCalls = @ + 1, !.allToolRounds = FALSE]
          /\ UNCHANGED <<messages, batch, toolResults>>
     ELSE IF IsFinal(HostIsAgent, provider, resp)
     THEN /\ pc' = "done"
          /\ result' = FinalResult(HostIsAgent, iterations')
          /\ stats' = [stats EXCEPT !.providerCalls = @ + 1, !.allToolRounds = FALSE]
          /\ UNCHANGED <<messages, batch, toolResults>>
     ELSE IF ProcessesTools(HostIsAgent, provider, resp)
     THEN /\ batch' = WithIds(resp.calls, stats.requested)
          /\ toolResults' = <<>>
          /\ stats' = [stats EXCEPT !.providerCalls = @ + 1,
                                    !.requested = @ + Len(resp.calls),
                                    !.allToolRounds = @ /\ Len(resp.calls) > 0]
          /\ IF resp.calls = <<>>
             THEN /\ messages' =
                       IF provider = "anthropic"
                       THEN messages \o <<Turn("assistant", <<>>, <<>>),
                                          Turn("user", <<>>, <<>>)>>
                       ELSE Append(messages, Turn("assistant", <<>>, <<>>))
                  /\ pc' = "loop"
             ELSE /\ messages' = Append(messages, Turn("assistant", Ids(batch'), <<>>))
                  /\ pc' = "tools"
          /\ UNCHANGED result
     ELSE /\ pc' = "loop"
          /\ stats' = [stats EXCEPT !.providerCalls = @ + 1, !.allToolRounds = FALSE]
          /\ UNCHANGED <<messages, batch, toolResults, result>>
  /\ UNCHANGED <<provider, maxIterations, toolCalls>>
  /\ UNCHANGED <<nameVars, connVars, hostVars, regVars, cfgVars, extVars>>

\* One pass of `for (const toolCall of message.tool_calls)` /
\* `for (const toolUse of toolUseBlocks)`: parse, call the tool, record
\* the result or the error; after the last one the results are handed on.
ToolStep(backendOk) ==
  /\ pc = "tools"
  /\ LET req == Head(batch)
         out == ToolOutcome(HostIsAgent, provider, connections, req, backendOk)
     IN  IF ParseThrowsOutOfLoop(HostIsAgent, provider, req)
         THEN /\ pc' = "done"
              /\ result' = AgentResult(FALSE, "Fehler", iterations, "JSON parse error")
              /\ last' = [step |-> "parse", id |-> req.id, threw |-> FALSE,
                          failed |-> FALSE, stop |-> ""]
              /\ UNCHANGED <<messages, toolCalls, batch, toolResults, stats>>
         ELSE /\ toolCalls' = IF HostIsAgent
                              THEN Append(toolCalls, ToolCallRecord(req, out))
                              ELSE toolCalls
              /\ batch' = Tail(batch)
              /\ pc' = AfterToolCall(batch')
              /\ toolResults' = IF provider = "anthropic"
                                THEN Append(toolResults, ToolResult(req, out))
                                ELSE toolResults
              /\ messages' =
                   IF provider = "openai"
                   THEN Append(messages, Turn("tool", <<>>, <<ToolResult(req, out)>>))
                   ELSE IF batch' = <<>>
                   THEN Append(messages, ToolResultsTurn(toolResults'))
                   ELSE messages
              /\ last' = [step |-> "tool", id |-> req.id, threw |-> out.threw,
                          failed |-> FALSE, stop |-> ""]
              /\ stats' = [stats EXCEPT !.dispatched = @ + 1]
              /\ UNCHANGED result
  /\ UNCHANGED <<provider, maxIterations, iterations>>
  /\ UNCHANGED <<nameVars, connVars, hostVars, regVars, cfgVars, extVars>>

\* The while condition fails: the iteration limit is the outcome.
LoopExit ==
  /\ pc = "loop"
  /\ iterations >= maxIterations
  /\ pc' = "done"
  /\ result' = MaxIterationsResult(HostIsAgent, iterations)
  /\ last' = [step |-> "exit", id |-> 0, threw |-> FALSE, failed |-> FALSE, stop |-> ""]
  /\ UNCHANGED <<provider, maxIterations, iterations, messages, toolCalls, batch,
                 toolResults, stats>>
  /\ UNCHANGED <<nameVars, connVars, hostVars, regVars, cfgVars, extVars>>

AgentNext ==
  \/ \E resp \in Responses, ok \in BOOLEAN : ProviderCall(resp, ok)
  \/ \E backendOk \in BOOLEAN : ToolStep(backendOk)
  \/ LoopExit

SpecAgent == AgentInit /\ [][AgentNext]_vars

(***************************************************************************)
(* Claims about the agent loop                                             *)
(***************************************************************************)

\* C1: a McpAgent run whose provider asked for a tool call in every round
\* ends with success=false, error "Max iterations reached" and
\* iterations = maxIterations, after maxIterations provider calls.
C1_StopsAtIterationCap ==
  (HostIsAgent /\ pc = "done" /\ stats.allToolRounds)
  => ( /\ ~result.success
       /\ result.error = "Max iterations reached"
       /\ result.iterations = maxIterations
       /\ stats.providerCalls = maxIterations )

\* The tool-result last added in a step: the last message (OpenAI, and
\* Anthropic once the batch is through) or the last collected block.
NewestToolResult(msgs, collected) ==
  IF collected # <<>>
  THEN collected[Len(collected)]
  ELSE msgs[Len(msgs)].results[Len(msgs[Len(msgs)].results)]

\* C2: when the call of a requested tool throws, the loop neither throws nor
\* ends the run: a tool-result carrying the error is added for that
\* invocation's id, the rest of the batch is next, and after the batch the
\* loop goes on with its next iteration.
C2_ToolErrorContinues ==
  [][ (pc = "tools" /\ last'.step = "tool" /\ last'.threw)
      => ( /\ result' = NoResult
           /\ batch' = Tail(batch)
           /\ pc' = IF Tail(batch) = <<>> THEN "loop" ELSE "tools"
           /\ Len(messages') + Len(toolResults') > Len(messages) + Len(toolResults)
              \/ (provider = "anthropic" /\ Tail(batch) = <<>>)
           /\ NewestToolResult(messages', IF pc' = "tools" THEN toolResults' ELSE <<>>).id
                = Head(batch).id
           /\ NewestToolResult(messages', IF pc' = "tools" THEN toolResults' ELSE <<>>).error
                # ""
           /\ provider = "anthropic" /\ Tail(batch) = <<>>
                => messages' = Append(messages, Turn("user", <<>>, toolResults')) ) ]_vars

\* A tool call threw and the next invocation of the same batch is up.
C2_Witness == pc = "tools" /\ last.step = "tool" /\ last.threw

\* C3: when the provider call of iteration k fails, McpAgent.run is over at
\* once with success=false, the failure as error and iterations = k; the
\* toolCalls of earlier iterations are as they were, and nothing is called
\* after the run is over.
C3_ProviderFailureIsFatal ==
  [][ /\ (HostIsAgent /\ pc = "loop" /\ last'.step = "provider" /\ last'.failed)
         => ( /\ pc' = "done"
              /\ result'.kind = "AgentResult"
              /\ ~result'.success
              /\ result'.error = "provider error"
              /\ result'.iterations = iterations + 1
              /\ result'.iterations = stats'.providerCalls
              /\ toolCalls' = toolCalls
              /\ stats'.dispatched = stats.dispatched )
      /\ pc = "done"
         => ( /\ pc' = "done"
              /\ stats'.providerCalls = stats.providerCalls
              /\ stats'.dispatched = stats.dispatched ) ]_vars

\* A McpAgent run that made tool calls and then ended on a provider failure.
C3_Witness ==
  /\ HostIsAgent
  /\ pc = "done"
  /\ last.step = "provider" /\ last.failed
  /\ toolCalls # <<>>

\* C10: a run ends by final answer, iteration limit or provider failure and
\* returns; a McpAgent result has success=true exactly for a final answer,
\* and success=false comes with an answer and an error.
C10_WellFormedOutcome ==
  pc = "done"
  => ( /\ result.kind # "exception"
       /\ last.step \in {"provider", "exit"}
       /\ result.kind = "AgentResult"
            => ( /\ result.success <=> (last.step = "provider" /\ ~last.failed)
                 /\ ~result.success => (result.answer # "" /\ result.error # "") ) )

RECURSIVE RequestedIds(_)
\* The ids of the invocations requested in the conversation, in order.
RequestedIds(msgs) ==
  IF msgs = <<>> THEN <<>> ELSE Head(msgs).calls \o RequestedIds(Tail(msgs))

RECURSIVE AnsweredIds(_)
\* The ids of the tool-results in the conversation, in order.
AnsweredIds(msgs) ==
  IF msgs = <<>> THEN <<>> ELSE Ids(Head(msgs).results) \o AnsweredIds(Tail(msgs))

\* The tool-results so far, with those collected for the open batch.
ResultIdsSoFar ==
  AnsweredIds(messages) \o (IF pc = "tools" THEN Ids(toolResults) ELSE <<>>)

IsPrefix(a, b) == Len(a) <= Len(b) /\ a = SubSeq(b, 1, Len(a))

\* C11: the invocations of a batch are called in request order, each giving
\* one tool-result, and whenever the loop is about to call the provider
\* every requested invocation has its tool-result in the conversation.
C11_WholeBatchBeforeProvider ==
  /\ IsPrefix(ResultIdsSoFar, RequestedIds(messages))
  /\ stats.dispatched = Len(ResultIdsSoFar)
  /\ pc = "tools" => Ids(batch) = SubSeq(RequestedIds(messages), Len(ResultIdsSoFar) + 1,
                                         Len(RequestedIds(messages)))
  /\ pc = "loop" => AnsweredIds(messages) = RequestedIds(messages)

\* A batch of two invocations was answered and the provider called again.
C11_Witness ==
  /\ stats.providerCalls >= 2
  /\ last.step = "provider"
  /\ \E i \in 1..Len(messages) : Len(messages[i].calls) = 2

(***************************************************************************)
(* Claims about failing connects and about disconnect                      *)
(***************************************************************************)

\* A connect attempt of task t fails in this step: at the spawn, at the
\* handshake, or while the tools or the resources are listed.
ConnectFails(t) ==
  \/ \E n \in KnownServers : ~AlreadyConnected(n) /\ ConnectStart(t, n, FALSE)
  \/ \E cleaned \in BOOLEAN : ConnectHandshake(t, FALSE, cleaned)
  \/ ConnectListTools(t, FALSE)
  \/ ConnectListResources(t, FALSE)

\* C12: a connect attempt that fails stores nothing: the connection map with
\* every snapshot in it and the tool catalogs are as before the failure, so
\* a name that was not connected is not connected afterwards.
C12_FailedConnectStoresNothing ==
  [][ \A t \in Tasks :
        ConnectFails(t)
        => ( /\ connections' = connections
             /\ allTools' = allTools
             /\ registry' = registry
             /\ MapKeys(connections') = MapKeys(connections) ) ]_vars

\* First "d" was connected, then a connect of "f" got its process and
\* failed: "d" is the only connection.
C12_Witness ==
  /\ hist.failure /\ ~hist.overlap /\ AllIdle
  /\ MapKeys(connections) = {<<"d">>}
  /\ MapGet(connections, <<"d">>).proc = 1
  /\ [id |-> 2, server |-> <<"f">>] \in procs

\* Task t is in disconnect or disconnectAll, waiting for a close().
Disconnecting(t) == tasks[t].op \in {"disconnect", "disconnectAll"}

\* C13: when a disconnect or a disconnectAll has ended, whether its close()
\* succeeded or threw, the name it was closing is no longer in the
\* connection map.
C13_DisconnectAlwaysRemoves ==
  [][ \A t \in Tasks :
        (Disconnecting(t) /\ tasks'[t] = Idle)
        => ~MapHas(connections', tasks[t].name) ]_vars

(***************************************************************************)
(* SpecShutdown: the host connects its servers, then cleans up and exits   *)
(* (main() of the agent host, deactivate() of the extension); the agent    *)
(* host may get SIGINT or SIGTERM at any time.                             *)
(***************************************************************************)

\* The task of main() / deactivate(), and the one that connects servers.
MainTask == 1
SessionTask == 2

ShutdownInit ==
  /\ NamesIdle
  /\ RegIdle
  /\ CfgIdle
  /\ ExtIdle
  /\ AgentIdle
  /\ impl \in {McpClientManager, AgentBridge}
  /\ connections = <<>>
  /\ allTools = <<>>
  /\ registry = <<>>
  /\ procs = {}
  /\ nextProc = 1
  /\ tasks = [t \in Tasks |-> Idle]
  /\ lastDispatch = NoDispatch
  /\ hist = [overlap |-> FALSE, failure |-> FALSE]
  /\ host = "main"
  /\ call = NoCall
  /\ runs = <<>>

\* main(): `await mcpClient.disconnectAll()` after the agent has run or
\* failed, all servers of the configuration having been tried before.
\* deactivate() / restartServers(): `await bridge.disconnectAll()`, whatever
\* startSession is still waiting for.
Cleanup ==
  /\ host = "main"
  /\ IF impl = McpClientManager THEN AllIdle ELSE tasks[MainTask] = Idle
  /\ DisconnectAllBegin(MainTask)
  /\ host' = "cleanup"
  /\ UNCHANGED <<call, runs>>

\* disconnectAll has returned or thrown: main() is through ("Bye!", or
\* main().catch with process.exit(1)); deactivate() has resolved.
Exit ==
  /\ host = "cleanup"
  /\ tasks[MainTask] = Idle
  /\ host' = "exited"
  /\ UNCHANGED <<nameVars, connVars, agentVars, regVars, cfgVars, extVars, call, runs>>

\* process.on("SIGINT" / "SIGTERM"): process.exit(0)
Signal ==
  /\ impl = McpClientManager
  /\ host \in {"main", "cleanup"}
  /\ host' = "exited"
  /\ UNCHANGED <<nameVars, connVars, agentVars, regVars, cfgVars, extVars, call, runs>>

ShutdownNext ==
  \/ /\ host = "main"
     /\ \E n \in KnownServers, ok \in BOOLEAN : ConnectStart(SessionTask, n, ok)
  \/ /\ host \in {"main", "cleanup"}
     /\ \/ \E ok \in BOOLEAN, cleaned \in BOOLEAN : ConnectHandshake(SessionTask, ok, cleaned)
        \/ \E ok \in BOOLEAN : ConnectListTools(SessionTask, ok)
        \/ \E ok \in BOOLEAN : ConnectListResources(SessionTask, ok)
        \/ \E ok \in BOOLEAN, killed \in BOOLEAN : DisconnectAllClose(MainTask, ok, killed)
  \/ Cleanup
  \/ Exit
  \/ Signal

SpecShutdown == ShutdownInit /\ [][ShutdownNext]_vars

\* C14: when the host has exited, no backend connection is active.
C14_NoConnectionAtExit == host = "exited" => connections = <<>>

(***************************************************************************)
(* Claims about crashed backends and unknown tools                         *)
(***************************************************************************)

\* C15: no close() having failed and no call being in progress, every
\* backend that getStatus reports as connected has a running process, and
\* every tool of allTools belongs to such a backend: a crashed backend is
\* in neither.
C15_CrashedBackendRemoved ==
  (~hist.failure /\ AllIdle)
  => /\ \A n \in DOMAIN GetStatus(connections) :
          GetStatus(connections)[n].connected => ProcAlive(MapGet(connections, n))
     /\ \A i \in 1..Len(allTools) :
          \E p \in procs : p.server = allTools[i].serverName

\* The text after the first "__".
ToolPart(fullName) == SubSeq(fullName, IndexOfSep(fullName) + 2, Len(fullName))

\* C16: a call by a well-formed name whose backend is connected and whose
\* tool is not in that backend's snapshot throws and sends nothing to the
\* backend.
C16_UnknownToolNotSent ==
  ( /\ Dispatched
    /\ ~Malformed(lastDispatch.fullName)
    /\ lastDispatch.wasConnected
    /\ ToolPart(lastDispatch.fullName)
         \notin Range(ServerTools(ServerPart(lastDispatch.fullName))) )
  => (lastDispatch.threw /\ ~lastDispatch.sent)

(***************************************************************************)
(* SpecTeardown: one caller connects servers and calls disconnect and      *)
(* disconnectAll, one call after the other.                                *)
(***************************************************************************)

TeardownInit ==
  /\ NamesIdle
  /\ RegIdle
  /\ CfgIdle
  /\ ExtIdle
  /\ AgentIdle
  /\ impl \in {McpClientManager, AgentBridge}
  /\ connections = <<>>
  /\ allTools = <<>>
  /\ registry = <<>>
  /\ procs = {}
  /\ nextProc = 1
  /\ tasks = [t \in Tasks |-> Idle]
  /\ lastDispatch = NoDispatch
  /\ hist = [overlap |-> FALSE, failure |-> FALSE]
  /\ host = "calls"
  /\ call = NoCall
  /\ runs = <<>>

\* What of the registry a call can change before its first await.
Registry == <<connections, allTools, procs>>

\* await manager.disconnect(name)
CallDisconnect(name) ==
  /\ DisconnectBegin(MainTask, name)
  /\ call' = [op |-> "disconnect", name |-> name, before |-> connections,
              threw |-> DisconnectEntry(connections, name).threw,
              closing |-> tasks'[MainTask] # Idle,
              changed |-> Registry' # Registry,
              repeat |-> call.op = "disconnect" /\ call.name = name /\ call.closing]
  /\ UNCHANGED <<host, runs>>

\* await manager.disconnectAll() / await bridge.disconnectAll()
CallDisconnectAll ==
  /\ DisconnectAllBegin(MainTask)
  /\ call' = [op |-> "disconnectAll", name |-> <<>>, before |-> connections,
              threw |-> FALSE,
              closing |-> tasks'[MainTask] # Idle,
              changed |-> Registry' # Registry,
              repeat |-> FALSE]
  /\ UNCHANGED <<host, runs>>

TeardownNext ==
  \/ \E n \in KnownServers, ok \in BOOLEAN : ConnectStart(MainTask, n, ok)
  \/ \E ok \in BOOLEAN, cleaned \in BOOLEAN : ConnectHandshake(MainTask, ok, cleaned)
  \/ \E ok \in BOOLEAN : ConnectListTools(MainTask, ok)
  \/ \E ok \in BOOLEAN : ConnectListResources(MainTask, ok)
  \/ \E n \in KnownServers : CallDisconnect(n)
  \/ \E ok \in BOOLEAN, killed \in BOOLEAN : DisconnectClose(MainTask, ok, killed)
  \/ CallDisconnectAll
  \/ \E ok \in BOOLEAN, killed \in BOOLEAN : DisconnectAllClose(MainTask, ok, killed)

SpecTeardown == TeardownInit /\ [][TeardownNext]_vars

\* C17: a disconnect of a name that is not connected, and a disconnectAll
\* with nothing connected, return without
\* throwing, close nothing and change nothing; so does the second of two
\* disconnects of one name.
C17_DisconnectIdempotent ==
  /\ (call.op = "disconnect" /\ ~MapHas(call.before, call.name))
       => (~call.threw /\ ~call.closing /\ ~call.changed)
  /\ (call.op = "disconnectAll" /\ call.before = <<>>)
       => (~call.threw /\ ~call.closing /\ ~call.changed)

\* disconnect(n) closed the connected n, and disconnect(n) was called again.
C17_Witness ==
  /\ call.op = "disconnect"
  /\ call.repeat
  /\ ~MapHas(call.before, call.name)
  /\ tasks[MainTask] = Idle

(***************************************************************************)
(* Claims about the record of tool calls                                   *)
(***************************************************************************)

\* C18: the toolCalls of a McpAgent run have one record per invocation the
\* loop called, in the order of the calls: each call appends one record
\* with the requested namespaced name and with the error, if any, that the
\* tool-result of that invocation carries, and no other step touches the
\* list.
C18_OneRecordPerCall ==
  /\ [](HostIsAgent => Len(toolCalls) = stats.dispatched)
  /\ [][ HostIsAgent =>
           IF stats'.dispatched # stats.dispatched
           THEN /\ stats'.dispatched = stats.dispatched + 1
                /\ toolCalls' = Append(toolCalls,
                      [tool |-> Head(batch).name,
                       error |-> NewestToolResult(messages',
                                   IF pc' = "tools" THEN toolResults' ELSE <<>>).error])
                /\ NewestToolResult(messages',
                      IF pc' = "tools" THEN toolResults' ELSE <<>>).id = Head(batch).id
           ELSE toolCalls' = toolCalls ]_vars

\* One request, for d__x, was called and the run ended with a final answer:
\* toolCalls is the one record of it.
C18_Witness ==
  /\ HostIsAgent
  /\ pc = "done"
  /\ result.kind = "AgentResult" /\ result.success
  /\ stats.requested = 1
  /\ toolCalls = <<[tool |-> ToolX, error |-> ""]>>

(***************************************************************************)
(* SpecRuns: two McpAgent.run calls at once on one McpClientManager with   *)
(* the server "d" connected; each asks for d__x with arguments of its own. *)
(***************************************************************************)

Runs == {1, 2}

\* `const toolCalls = []; let iterations = 0; const messages = [...]`: the
\* locals of one run.
NewRun(p) ==
  [pc |-> "loop", iterations |-> 0, messages |-> InitialMessages(p),
   toolCalls |-> <<>>, batch |-> <<>>, success |-> FALSE]

RunsInit ==
  /\ NamesIdle
  /\ RegIdle
  /\ CfgIdle
  /\ ExtIdle
  /\ impl = McpClientManager
  /\ connections = <<[key |-> <<"d">>, proc |-> 1, tools |-> ServerTools(<<"d">>)]>>
  /\ allTools = <<>>
  /\ registry = RegisterEach(<<>>, GetAllTools(connections))
  /\ procs = {[id |-> 1, server |-> <<"d">>]}
  /\ nextProc = 2
  /\ tasks = [t \in Tasks |-> Idle]
  /\ lastDispatch = NoDispatch
  /\ hist = [overlap |-> FALSE, failure |-> FALSE]
  /\ provider \in {"openai", "anthropic"}
  /\ maxIterations = MaxIter
  /\ pc = "off"
  /\ iterations = 0
  /\ messages = <<>>
  /\ toolCalls = <<>>
  /\ batch = <<>>
  /\ toolResults = <<>>
  /\ result = NoResult
  /\ last = NoStep
  /\ stats = NoStats
  /\ host = "runs"
  /\ call = NoCall
  /\ runs = [r \in Runs |-> NewRun(provider)]

\* Nothing but the runs changes in a step of a run: callTool reads the
\* connection map and the loop keeps its state in locals.
OnlyRuns ==
  /\ UNCHANGED <<nameVars, connVars, agentVars, regVars, cfgVars, extVars>>
  /\ UNCHANGED <<host, call>>

\* Mutant: toolCalls is one list of the agent, shared by its runs.
PushToolCallShared(rs, r, rec) ==
  [q \in DOMAIN rs |-> [rs[q] EXCEPT !.toolCalls = Append(@, rec)]]

\* toolCalls.push(...) on the list of this run.
PushToolCall(rs, r, rec) == [rs EXCEPT ![r].toolCalls = Append(@, rec)]

\* The provider call of run r settles: it failed, gave the final answer,
\* or asked for d__x with this run's arguments.
RunProviderCall(r, stop, ok) ==
  /\ runs[r].pc = "loop"
  /\ runs[r].iterations < maxIterations
  /\ LET it == runs[r].iterations + 1
         req == [id |-> [run |-> r, n |-> it], name |-> ToolX, args |-> r]
     IN  runs' = [runs EXCEPT ![r] =
           IF ~ok
           THEN [@ EXCEPT !.iterations = it, !.pc = "done"]
           ELSE IF stop = "final"
           THEN [@ EXCEPT !.iterations = it, !.pc = "done", !.success = TRUE]
           ELSE [@ EXCEPT !.iterations = it, !.pc = "tools", !.batch = <<req>>,
                          !.messages = Append(@, Turn("assistant", <<req.id>>, <<>>))]]
  /\ OnlyRuns

\* callToolByFullName is called: the request of run r is on its way.
RunToolSend(r) ==
  /\ runs[r].pc = "tools"
  /\ runs' = [runs EXCEPT ![r].pc = "calling"]
  /\ OnlyRuns

\* The tool call of run r settles; the backend answers the request it got.
RunToolReturn(r, backendOk) ==
  /\ runs[r].pc = "calling"
  /\ LET req == Head(runs[r].batch)
         out == DispatchTool(McpClientManager, connections, req.name, backendOk)
         rec == [tool |-> req.name, args |-> req.args, error |-> out.error,
                 answerTo |-> IF out.threw THEN 0 ELSE req.args]
         res == [id |-> req.id, error |-> out.error]
         pushed == PushToolCall(runs, r, rec)
     IN  runs' = [pushed EXCEPT ![r] =
           [@ EXCEPT !.pc = "loop", !.batch = <<>>,
                     !.messages = Append(@, Turn(IF provider = "openai" THEN "tool" ELSE "user",
                                                 <<>>, <<res>>))]]
  /\ OnlyRuns

\* The while condition of run r fails.
RunLoopExit(r) ==
  /\ runs[r].pc = "loop"
  /\ runs[r].iterations >= maxIterations
  /\ runs' = [runs EXCEPT ![r].pc = "done"]
  /\ OnlyRuns

RunsNext ==
  \/ \E r \in Runs, stop \in {"final", "tools"}, ok \in BOOLEAN : RunProviderCall(r, stop, ok)
  \/ \E r \in Runs : RunToolSend(r)
  \/ \E r \in Runs, backendOk \in BOOLEAN : RunToolReturn(r, backendOk)
  \/ \E r \in Runs : RunLoopExit(r)

SpecRuns == RunsInit /\ [][RunsNext]_vars

\* The ids of the invocations and tool-results in a conversation.
IdsIn(msgs) ==
  UNION {Range(msgs[i].calls) \cup Range(Ids(msgs[i].results)) : i \in 1..Len(msgs)}

\* C19: while two runs share the manager, the conversation and the
\* toolCalls of each hold its own invocations and results only, one per
\* call it made, and one connection and one process exist for "d" all
\* along.
C19_ConcurrentRunsIndependent ==
  /\ \A r \in Runs :
       /\ \A id \in IdsIn(runs[r].messages) : id.run = r
       /\ \A k \in 1..Len(runs[r].toolCalls) :
            /\ runs[r].toolCalls[k].args = r
            /\ runs[r].toolCalls[k].answerTo \in {0, r}
       /\ Len(runs[r].toolCalls) + Len(runs[r].batch) = Len(RequestedIds(runs[r].messages))
       /\ AnsweredIds(runs[r].messages)
            = SubSeq(RequestedIds(runs[r].messages), 1, Len(runs[r].toolCalls))
  /\ Len(connections) = 1
  /\ MapHas(connections, <<"d">>)
  /\ Cardinality(LiveProcs(<<"d">>)) = 1

\* Both runs called d__x once, got the answer to their own request and
\* ended successfully.
C19_Witness ==
  \A r \in Runs :
    /\ runs[r].pc = "done" /\ runs[r].success
    /\ runs[r].toolCalls = <<[tool |-> ToolX, args |-> r, error |-> "", answerTo |-> r]>>

(***************************************************************************)
(* Claims about a backend that failed to start                             *)
(***************************************************************************)

ToolsOfD == {ToolX, ToolY}

\* The provider has asked for a tool of "d" in this run.
RequestedToolOfD ==
  \/ \E k \in 1..Len(toolCalls) : toolCalls[k].tool \in ToolsOfD
  \/ batch # <<>> /\ Head(batch).name \in ToolsOfD

\* C20: in a McpAgent run with "d" not connected and a provider that does
\* not fail, every request for a tool of "d" is answered with an error
\* tool-result; the run returns success=true when the provider gives its
\* final answer, and success=false only at the iteration cap.
C20_MissingBackendIsToolError ==
  ( /\ HostIsAgent
    /\ ~MapHas(connections, <<"d">>)
    /\ RequestedToolOfD
    /\ ~last.failed )
  => ( /\ \A k \in 1..Len(toolCalls) :
            toolCalls[k].tool \in ToolsOfD => toolCalls[k].error # ""
       /\ pc = "done"
            => ( /\ result.kind = "AgentResult"
                 /\ result.success <=> last.step = "provider"
                 /\ ~result.success
                      => (last.step = "exit" /\ result.iterations = maxIterations) ) )

(***************************************************************************)
(* SpecRegistry: a ToolRegistry that is registered into, unregistered      *)
(* from and searched                                                       *)
(***************************************************************************)

\* maxResults?: number
NoLimit == [set |-> FALSE, val |-> 0]

Limit(n) == [set |-> TRUE, val |-> n]

\* b.priority ?? 0
PriorityOf(tool) == IF tool.priority.set THEN tool.priority.val ELSE 0

RECURSIVE InsertByPriority(_, _)
\* One step of a stable sort: t goes behind every element that the
\* comparator (b.priority ?? 0) - (a.priority ?? 0) does not put after it.
InsertByPriority(sorted, t) ==
  IF sorted = <<>> THEN <<t>>
  ELSE IF PriorityOf(Head(sorted)) >= PriorityOf(t)
       THEN <<Head(sorted)>> \o InsertByPriority(Tail(sorted), t)
       ELSE <<t>> \o sorted

RECURSIVE SortFrom(_, _)
SortFrom(sorted, rest) ==
  IF rest = <<>> THEN sorted
  ELSE SortFrom(InsertByPriority(sorted, Head(rest)), Tail(rest))

\* results.sort((a, b) => (b.priority ?? 0) - (a.priority ?? 0)), a stable sort
SortByPriority(results) == SortFrom(<<>>, results)

\* results.slice(0, n), for n >= 0
SliceTo(results, n) == SubSeq(results, 1, IF n < Len(results) THEN n ELSE Len(results))

\* The one name pattern of the model, /x$/, tested against a full name.
NamePatternTest(pattern, fullName) ==
  fullName # <<>> /\ fullName[Len(fullName)] = "x"

RECURSIVE FilterByTags(_, _, _)
\* The loop over options.tags: the candidates of the tag's index set stay;
\* a tag without an index set empties the candidates and ends the loop.
FilterByTags(R, candidates, tags) ==
  IF tags = <<>> THEN candidates
  ELSE IF Head(tags) \in DOMAIN R.tagIndex
       THEN FilterByTags(R,
              SelectSeq(candidates, LAMBDA t : t \in R.tagIndex[Head(tags)]),
              Tail(tags))
       ELSE <<>>

\* search, up to the limit: the candidates in the order of this.tools,
\* filtered by category, tags, servers and name pattern, then sorted.
SearchSorted(R, options) ==
  LET all == KeySeq(R.tools)
      byCategory ==
        IF options.category # ""
        THEN IF options.category \in DOMAIN R.categoryIndex
             THEN SelectSeq(all, LAMBDA t : t \in R.categoryIndex[options.category])
             ELSE <<>>
        ELSE all
      byTags == FilterByTags(R, byCategory, options.tags)
      byServers ==
        IF Len(options.servers) > 0
        THEN SelectSeq(byTags,
               LAMBDA t : MapGet(R.tools, t).serverName \in Range(options.servers))
        ELSE byTags
      byName ==
        IF options.namePattern # ""
        THEN SelectSeq(byServers, LAMBDA t : NamePatternTest(options.namePattern, t))
        ELSE byServers
  IN  SortByPriority([i \in 1..Len(byName) |-> MapGet(R.tools, byName[i])])

\* if (options.maxResults && results.length > options.maxResults)
\*   results = results.slice(0, options.maxResults)
ApplyLimit(options, results) ==
  IF /\ options.maxResults.set
     /\ options.maxResults.val # 0
     /\ Len(results) > options.maxResults.val
  THEN SliceTo(results, options.maxResults.val)
  ELSE results

\* ToolRegistry.search
Search(R, options) == ApplyLimit(options, SearchSorted(R, options))

\* ToolRegistry.getStats().totalTools
TotalTools(R) == Len(R.tools)

\* The servers whose tools are unregistered.
RegistryServers == {t.serverName : t \in KnownTools}

\* The searches that are asked: a category in use and one never registered,
\* tags in use and one never registered, a limit of 0, 1 and 2.
SearchOptions ==
  [category : {"", "c1", "c3"},
   tags : {<<>>, <<"t1">>, <<"t1", "t2">>, <<"t3">>},
   servers : {<<>>, <<<<"d">>>>},
   namePattern : {"", "x$"},
   maxResults : {NoLimit, Limit(0), Limit(1), Limit(2)}]

RegistryInit ==
  /\ NamesIdle
  /\ ConnIdle
  /\ AgentIdle
  /\ CfgIdle
  /\ ExtIdle
  /\ host = "registry"
  /\ call = NoCall
  /\ runs = <<>>
  /\ toolRegistry = NewToolRegistry
  /\ query = NoQuery
  /\ pairs = {}

\* registry.register(tool)
RegistryRegister(tool) ==
  /\ host = "registry"
  /\ toolRegistry' = ToolRegistryRegister(toolRegistry, tool)
  /\ pairs' = pairs \cup {<<tool.serverName, tool.name>>}
  /\ query' = NoQuery
  /\ UNCHANGED <<nameVars, connVars, agentVars, hostVars, cfgVars, extVars>>

\* registry.unregisterServer(serverName)
RegistryUnregisterServer(serverName) ==
  /\ host = "registry"
  /\ toolRegistry' = UnregisterServer(toolRegistry, serverName)
  /\ pairs' = {p \in pairs : p[1] # serverName}
  /\ query' = NoQuery
  /\ UNCHANGED <<nameVars, connVars, agentVars, hostVars, cfgVars, extVars>>

\* registry.search(options)
RegistrySearch(options) ==
  /\ host = "registry"
  /\ query' = [asked |-> TRUE, options |-> options,
               results |-> Search(toolRegistry, options)]
  /\ UNCHANGED <<nameVars, connVars, agentVars, hostVars, cfgVars, extVars, toolRegistry, pairs>>

RegistryNext ==
  \/ \E tool \in KnownTools : RegistryRegister(tool)
  \/ \E serverName \in RegistryServers : RegistryUnregisterServer(serverName)
  \/ \E options \in SearchOptions : RegistrySearch(options)

SpecRegistry == RegistryInit /\ [][RegistryNext]_vars

\* The tool carries every tag of the list.
CarriesTags(tool, tags) == Range(tags) \subseteq Range(tool.tags)

\* The tool passes the filters of the options by its own fields.
Matches(tool, options) ==
  /\ options.category # "" => tool.category = options.category
  /\ CarriesTags(tool, options.tags)
  /\ Len(options.servers) > 0 => tool.serverName \in Range(options.servers)
  /\ options.namePattern # "" => NamePatternTest(options.namePattern, tool.key)

\* C21: a search with a non-empty tag list and no limit returns exactly the
\* registered tools that carry every tag of the list and pass the category,
\* server and name filters; in particular nothing when no tool matches.
C21_TagSearchReturnsCarriers ==
  (query.asked /\ query.options.tags # <<>> /\ ~query.options.maxResults.set)
    => Range(query.results)
         = {t \in Range(toolRegistry.tools) : Matches(t, query.options)}

\* The place of a registered tool in the order of registration.
RegistrationIndex(tool) ==
  CHOOSE i \in 1..Len(toolRegistry.tools) : toolRegistry.tools[i].key = tool.key

\* Descending priority, a missing priority counting 0, ties in the order of
\* registration.
OrderedByPriority(results) ==
  \A i, j \in 1..Len(results) :
    i < j =>
      \/ PriorityOf(results[i]) > PriorityOf(results[j])
      \/ /\ PriorityOf(results[i]) = PriorityOf(results[j])
         /\ RegistrationIndex(results[i]) < RegistrationIndex(results[j])

\* C22: a search result is ordered by descending priority with ties in
\* registration order, and whenever maxResults is given, whatever its value,
\* the result is the first maxResults elements of that order and never
\* longer than maxResults.
C22_OrderedAndLimited ==
  query.asked =>
    /\ OrderedByPriority(query.results)
    /\ query.options.maxResults.set =>
         /\ Len(query.results) <= query.options.maxResults.val
         /\ query.results
              = SliceTo(SearchSorted(toolRegistry, query.options),
                        query.options.maxResults.val)

\* C29: two distinct (serverName, toolName) pairs never get the same
\* namespaced name, and getStats().totalTools is the number of distinct
\* pairs that were registered and not unregistered since.
C29_DistinctPairsDistinctNames ==
  /\ \A p, q \in pairs :
       p # q => FullName(p[1], p[2]) # FullName(q[1], q[2])
  /\ TotalTools(toolRegistry) = Cardinality(pairs)

(***************************************************************************)
(* SpecConfig: connectFromConfig / connectActiveServers over an active     *)
(* list and a configuration                                                *)
(***************************************************************************)

MaxActive == 3

\* A ServerConfig: its type, and whether it has a command.
ServerConfig(type, command) == [type |-> type, command |-> command]

\* The configurations: two stdio servers with a command and an http server,
\* with or without a command; "z" is in no configuration.
Configurations ==
  { [n \in {<<"d">>, <<"f">>, <<"h">>} |->
       IF n = <<"h">> THEN ServerConfig("http", c) ELSE ServerConfig("stdio", TRUE)]
    : c \in BOOLEAN }

ActiveNames == {<<"d">>, <<"f">>, <<"h">>, <<"z">>}

\* The active lists: up to MaxActive names, none twice.
ActiveLists ==
  UNION { {l \in [1..n -> ActiveNames] : \A i, j \in 1..n : i # j => l[i] # l[j]}
          : n \in 0..MaxActive }

ConfigInit ==
  /\ NamesIdle
  /\ RegIdle
  /\ ExtIdle
  /\ AgentIdle
  /\ host = "config"
  /\ call = NoCall
  /\ runs = <<>>
  /\ impl \in {McpClientManager, AgentBridge}
  /\ connections = <<>>
  /\ allTools = <<>>
  /\ registry = <<>>
  /\ procs = {}
  /\ nextProc = 1
  /\ tasks = [t \in Tasks |-> Idle]
  /\ lastDispatch = NoDispatch
  /\ hist = [overlap |-> FALSE, failure |-> FALSE]
  /\ servers \in Configurations
  /\ \E toConnect \in ActiveLists :
       loop = [pc |-> "iter", toConnect |-> toConnect, i |-> 1, visited |-> <<>>,
               transports |-> <<>>, proc |-> 0, failed |-> <<>>]

\* catch (error) { console.error(...) }: the loop goes on with the next name.
CatchConnectError(l) ==
  [l EXCEPT !.pc = "iter", !.i = @ + 1, !.failed = Append(@, l.toConnect[l.i])]

\* `continue` after a warning, or the end of the loop body.
NextName(l) == [l EXCEPT !.pc = "iter", !.i = @ + 1]

\* `if (config.type === "stdio")` in connectFromConfig; connectActiveServers
\* calls connectServer for every configured name.
TransportSupported(config) == impl = McpClientManager => config.type = "stdio"

\* One pass of `for (const serverName of toConnect)` up to the first await.
LoopIter ==
  /\ host = "config"
  /\ loop.pc = "iter"
  /\ loop.i <= Len(loop.toConnect)
  /\ LET name == loop.toConnect[loop.i]
         here == [loop EXCEPT !.visited = Append(@, name)]
     IN  IF name \notin DOMAIN servers
         THEN /\ loop' = NextName(here)
              /\ UNCHANGED connVars
         ELSE IF ~TransportSupported(servers[name])
         THEN /\ loop' = NextName(here)
              /\ UNCHANGED connVars
         ELSE IF ~servers[name].command
         THEN /\ loop' = CatchConnectError(here)
              /\ UNCHANGED connVars
         ELSE /\ \E spawnOk \in BOOLEAN : ConnectBegin(MainTask, name, spawnOk)
              /\ loop' = IF AlreadyConnected(name)
                         THEN [here EXCEPT !.pc = "await", !.proc = 0]
                         ELSE [here EXCEPT !.pc = "await", !.proc = nextProc,
                                           !.transports = Append(@, name)]
  /\ UNCHANGED <<nameVars, agentVars, hostVars, regVars, servers, extVars>>

\* The connection this pass of the loop made, if it made one.
ConnectedNow(l) ==
  LET name == l.toConnect[l.i]
  IN  /\ MapHas(connections, name)
      /\ l.proc # 0 => MapGet(connections, name).proc = l.proc

\* `await this.connectStdio(...)` / `await this.connectServer(...)` settles:
\* it returned, or it threw into the catch of the loop body.
LoopResume ==
  /\ host = "config"
  /\ loop.pc = "await"
  /\ tasks[MainTask] = Idle
  /\ loop' = IF ConnectedNow(loop) THEN NextName(loop) ELSE CatchConnectError(loop)
  /\ UNCHANGED <<nameVars, connVars, agentVars, hostVars, regVars, servers, extVars>>

\* The list is exhausted: the function returns.
LoopReturn ==
  /\ host = "config"
  /\ loop.pc = "iter"
  /\ loop.i > Len(loop.toConnect)
  /\ loop' = [loop EXCEPT !.pc = "returned"]
  /\ UNCHANGED <<nameVars, connVars, agentVars, hostVars, regVars, servers, extVars>>

ConfigNext ==
  \/ LoopIter
  \/ LoopResume
  \/ LoopReturn
  \/ \E ok \in BOOLEAN, cleaned \in BOOLEAN : ConnectHandshake(MainTask, ok, cleaned)
  \/ \E ok \in BOOLEAN : ConnectListTools(MainTask, ok)
  \/ \E ok \in BOOLEAN : ConnectListResources(MainTask, ok)

SpecConfig == ConfigInit /\ [][ConfigNext]_vars

\* C23: the loop visits the names of the active list in order and all of
\* them before it returns, creates a transport only for names that are
\* configured with the stdio transport, goes on after a server that failed,
\* never throws, and connects no server outside the active list.
C23_ConnectFromConfig ==
  loop.pc # "off" =>
    /\ loop.pc # "threw"
    /\ IsPrefix(loop.visited, loop.toConnect)
    /\ loop.pc = "returned" => loop.visited = loop.toConnect
    /\ \A n \in Range(loop.transports) :
         n \in DOMAIN servers /\ servers[n].type = "stdio"
    /\ MapKeys(connections) \subseteq Range(loop.toConnect)

\* The process belongs to the connection stored under its server's name.
OwnedByConnection(p) ==
  /\ MapHas(connections, p.server)
  /\ MapGet(connections, p.server).proc = p.id

\* C24: when no connect or disconnect is under way, every live backend
\* process is owned by an entry of the connection map, so a connect attempt
\* that failed after the process was started has left no process behind.
C24_FailedConnectCleansUp ==
  AllIdle => \A p \in procs : OwnedByConnection(p)

\* "__" occurs more than once in the full name.
AmbiguousSplit(fullName) == Len(Split(fullName)) > 2

\* C25: a dispatch by a name in which "__" occurs more than once throws the
\* malformed-name error and calls no backend, and a backend is only ever
\* called with the whole text after the first "__" as tool name.
C25_AmbiguousNameRejected ==
  Dispatched =>
    /\ AmbiguousSplit(lastDispatch.fullName) =>
         /\ lastDispatch.threw
         /\ lastDispatch.error = "Ungueltiger Tool-Name"
         /\ ~lastDispatch.sent
    /\ lastDispatch.sent =>
         lastDispatch.toolName = ToolPart(lastDispatch.fullName)

\* The OpenAI loop is at an invocation whose arguments do not parse.
AtUnparseableArgs ==
  pc = "tools" /\ provider = "openai" /\ ~Head(batch).argsOk

\* The step appended an error tool-result turn for the invocation and the
\* run goes on.
AppendsErrorTurn(req) ==
  /\ pc' \in {"tools", "loop"}
  /\ Len(messages') = Len(messages) + 1
  /\ LET turn == messages'[Len(messages')]
     IN  /\ turn.role = "tool"
         /\ Len(turn.results) = 1
         /\ turn.results[1].id = req.id
         /\ turn.results[1].error # ""

\* C28: in the OpenAI loop an invocation whose arguments are not JSON gets
\* an error tool-result turn for its id, and the run goes on with the other
\* invocations and the next provider call.
C28_UnparseableArgsAreToolError ==
  [][AtUnparseableArgs => AppendsErrorTurn(Head(batch))]_vars

\* A pass of the while loop that called the provider and did not end the run.
NonTerminalIteration ==
  pc = "loop" /\ iterations' = iterations + 1 /\ pc' # "done"

\* The pass appended the assistant turn with at least one tool request and
\* goes on to the tool calls, which append the tool-result turns.
AppendsToolRequestTurn ==
  /\ pc' = "tools"
  /\ Len(messages') = Len(messages) + 1
  /\ LET turn == messages'[Len(messages')]
     IN  turn.role = "assistant" /\ Len(turn.calls) >= 1

\* C26: a provider response is treated as a final answer or as a non-empty
\* set of tool requests; every pass of the loop that does not end the run
\* appends the assistant's tool-request turn and then tool-result turns, so
\* the provider is not called again with the conversation it just saw.
C26_IterationExtendsConversation ==
  [][NonTerminalIteration => AppendsToolRequestTurn]_vars

\* C30: the iterations field of a result of McpAgent.run is the number of
\* provider calls the run started, it is at most maxIterations, and it is
\* at least 1 when success is true.
C30_IterationsCountProviderCalls ==
  (HostIsAgent /\ pc = "done" /\ result.kind = "AgentResult") =>
    /\ result.iterations = stats.providerCalls
    /\ result.iterations <= maxIterations
    /\ result.success => result.iterations >= 1

\* A run that called a tool and then got its final answer in a second pass.
C30_Witness ==
  /\ HostIsAgent
  /\ pc = "done"
  /\ result.kind = "AgentResult"
  /\ result.success
  /\ result.iterations = 2
  /\ stats.dispatched >= 1

(***************************************************************************)
(* SpecPair: McpAgent.runWithOpenAI and runWithAnthropic, each given the   *)
(* same provider outcomes and the same tool outcomes                       *)
(***************************************************************************)

Providers == {"openai", "anthropic"}

\* The locals of one run, and what it did: the provider calls it started
\* and the names it passed to callToolByFullName.
NewPairRun ==
  [pc |-> "loop", iterations |-> 0, toolCalls |-> <<>>, providerCalls |-> 0,
   dispatched |-> <<>>, result |-> NoResult]

PairInit ==
  /\ NamesIdle
  /\ RegIdle
  /\ CfgIdle
  /\ ExtIdle
  /\ impl = McpClientManager
  /\ connections \in AgentConnections
  /\ allTools = <<>>
  /\ registry = RegisterEach(<<>>, GetAllTools(connections))
  /\ procs = {[id |-> connections[i].proc, server |-> connections[i].key] :
                i \in 1..Len(connections)}
  /\ nextProc = Len(connections) + 1
  /\ tasks = [t \in Tasks |-> Idle]
  /\ lastDispatch = NoDispatch
  /\ hist = [overlap |-> FALSE, failure |-> FALSE]
  /\ provider = "off"
  /\ maxIterations \in 0..MaxIter
  /\ pc = "off"
  /\ iterations = 0
  /\ messages = <<>>
  /\ toolCalls = <<>>
  /\ batch = <<>>
  /\ toolResults = <<>>
  /\ result = NoResult
  /\ last = NoStep
  /\ stats = NoStats
  /\ host = "pair"
  /\ call = NoCall
  /\ runs = [p \in Providers |-> NewPairRun]

RECURSIVE CallTools(_, _, _, _)
\* The for loop over the requested invocations: parse, callToolByFullName,
\* toolCalls.push of the result or of the error.
CallTools(p, run, reqs, toolOks) ==
  IF reqs = <<>> THEN run
  ELSE LET req == Head(reqs)
           out == ToolOutcome(TRUE, p, connections, req, Head(toolOks))
       IN  IF ParseThrowsOutOfLoop(TRUE, p, req)
           THEN [run EXCEPT !.pc = "done",
                            !.result = AgentResult(FALSE, "Fehler", run.iterations,
                                                   "JSON parse error")]
           ELSE CallTools(p,
                  [run EXCEPT !.toolCalls = Append(@, ToolCallRecord(req, out)),
                              !.dispatched = Append(@, req.name)],
                  Tail(reqs), Tail(toolOks))

\* One pass of `while (iterations < maxIterations)` of the loop of provider p.
OnePass(p, run, resp, ok, toolOks) ==
  LET it == run.iterations + 1
      called == [run EXCEPT !.iterations = it, !.providerCalls = @ + 1]
  IN  IF ~ok
      THEN [called EXCEPT !.pc = "done", !.result = ProviderErrorResult(TRUE, it)]
      ELSE IF IsFinal(TRUE, p, resp)
      THEN [called EXCEPT !.pc = "done", !.result = FinalResult(TRUE, it)]
      ELSE IF ProcessesTools(TRUE, p, resp)
      THEN CallTools(p, called, WithIds(resp.calls, 0), toolOks)
      ELSE called

Running(run) == run.pc = "loop" /\ run.iterations < maxIterations

\* The provider of each run that is still in its loop gives the same
\* outcome, and the tools give the same outcomes to the calls of each.
PairPass(resp, ok, toolOks) ==
  /\ host = "pair"
  /\ \E p \in Providers : Running(runs[p])
  /\ runs' = [p \in Providers |->
               IF Running(runs[p])
               THEN OnePass(p, runs[p], resp, ok, toolOks)
               ELSE runs[p]]
  /\ UNCHANGED <<nameVars, connVars, agentVars, regVars, cfgVars, extVars, host, call>>

\* The while condition of run p fails.
PairLoopExit(p) ==
  /\ host = "pair"
  /\ runs[p].pc = "loop"
  /\ runs[p].iterations >= maxIterations
  /\ runs' = [runs EXCEPT ![p] =
       [@ EXCEPT !.pc = "done",
                 !.result = MaxIterationsResult(TRUE, runs[p].iterations)]]
  /\ UNCHANGED <<nameVars, connVars, agentVars, regVars, cfgVars, extVars, host, call>>

\* The outcomes of the tool calls of one batch, by position.
ToolOutcomes == [1..MaxRequests -> BOOLEAN]

PairNext ==
  \/ \E resp \in Responses, ok \in BOOLEAN, toolOks \in ToolOutcomes :
       PairPass(resp, ok, toolOks)
  \/ \E p \in Providers : PairLoopExit(p)

SpecPair == PairInit /\ [][PairNext]_vars

\* C27: given the same provider outcomes and tool outcomes, the run of
\* runWithOpenAI and the run of runWithAnthropic make the same number of
\* provider calls, dispatch the same tool calls in the same order and
\* return the same success, iterations, presence of error and toolCalls.
C27_LoopsEquivalent ==
  (host = "pair" /\ \A p \in Providers : runs[p].pc = "done") =>
    LET a == runs["openai"]
        b == runs["anthropic"]
    IN  /\ a.providerCalls = b.providerCalls
        /\ a.dispatched = b.dispatched
        /\ a.result.success = b.result.success
        /\ a.result.iterations = b.result.iterations
        /\ (a.result.error = "") = (b.result.error = "")
        /\ a.toolCalls = b.toolCalls

\* The full names an index lists under key k.
Listed(index, k) == IF k \in DOMAIN index THEN index[k] ELSE {}

\* The full names whose stored tool has category c.
HavingCategory(R, c) == {t.key : t \in {u \in Range(R.tools) : u.category = c}}

\* The full names whose stored tool carries tag g.
HavingTag(R, g) == {t.key : t \in {u \in Range(R.tools) : g \in Range(u.tags)}}

RegistryCategories == {t.category : t \in KnownTools} \ {""}

RegistryTags == UNION {Range(t.tags) : t \in KnownTools}

\* C31: after any sequence of register and unregisterServer calls a full
\* name is listed under a category (a tag) exactly when the tool now stored
\* under that name has that category (carries that tag).
C31_IndexesAgreeWithTools ==
  /\ \A c \in RegistryCategories :
       Listed(toolRegistry.categoryIndex, c) = HavingCategory(toolRegistry, c)
  /\ \A g \in RegistryTags :
       Listed(toolRegistry.tagIndex, g) = HavingTag(toolRegistry, g)

\* The full names stored for a server.
NamesOfServer(R, serverName) ==
  {t.key : t \in {u \in Range(R.tools) : u.serverName = serverName}}

\* What unregisterServer(serverName) is to make of registry R into Q: the
\* tools of the server are gone from the map and from every index set, and
\* all else is as it was.
Unregistered(R, Q, serverName) ==
  LET removed == NamesOfServer(R, serverName)
  IN  /\ Q.tools = SelectSeq(R.tools, LAMBDA t : t.serverName # serverName)
      /\ \A c \in RegistryCategories :
           Listed(Q.categoryIndex, c) = Listed(R.categoryIndex, c) \ removed
      /\ \A g \in RegistryTags :
           Listed(Q.tagIndex, g) = Listed(R.tagIndex, g) \ removed
      /\ removed = {} => Q = R

\* C32: unregisterServer(s) removes the tools of s from the tool map and
\* from every category and tag index, leaves the tools and index entries of
\* the other servers as they were, and changes nothing when s has no tools.
C32_UnregisterRemovesServer ==
  [][\A serverName \in RegistryServers :
       RegistryUnregisterServer(serverName)
         => Unregistered(toolRegistry, toolRegistry', serverName)]_vars

\* AgentBridge.getStatus().servers: the tool count of each connection, summed.
RECURSIVE SumOfToolCounts(_)
SumOfToolCounts(conns) ==
  IF conns = <<>> THEN 0
  ELSE Len(Head(conns).tools) + SumOfToolCounts(Tail(conns))

\* C33: in AgentBridge, however connectServer calls and disconnectAll
\* interleave, allTools holds each tool of each connected server once and
\* nothing else, so getStatus().totalTools is the sum of the tool counts
\* of the servers it reports.
C33_AllToolsOfConnected ==
  impl = AgentBridge =>
    /\ Range(allTools) = Range(GetAllTools(connections))
    /\ Len(allTools) = SumOfToolCounts(connections)

\* The role of the n-th message of a history that starts with the user.
AlternatingRole(n) == IF n % 2 = 1 THEN "user" ELSE "assistant"

\* C34: the history runWithAnthropic hands to the provider starts with the
\* user prompt and alternates user and assistant turns, and each assistant
\* turn is followed at once by a user turn with one tool_result per tool_use
\* block of it, with the same ids in the same order.
C34_AnthropicHistoryWellFormed ==
  (provider = "anthropic" /\ pc = "loop") =>
    /\ Len(messages) % 2 = 1
    /\ \A n \in 1..Len(messages) : messages[n].role = AlternatingRole(n)
    /\ \A n \in 1..Len(messages) :
         messages[n].role = "assistant" =>
           /\ n < Len(messages)
           /\ Ids(messages[n + 1].results) = messages[n].calls

\* The provider is about to get a history in which a turn with two tool_use
\* blocks is answered by two tool_results, the first one an error.
C34_Witness ==
  /\ provider = "anthropic"
  /\ pc = "loop"
  /\ iterations < maxIterations
  /\ Len(messages) = 3
  /\ Len(messages[2].calls) = 2
  /\ Len(messages[3].results) = 2
  /\ messages[3].results[1].error # ""

(***************************************************************************)
(* SpecExtension: the VS Code extension.  Its module-level variables       *)
(* `bridge`, `currentPanel` and `chatHistory`, the commands                *)
(* mcpAgent.startSession and mcpAgent.restartServers, deactivate(), the    *)
(* handler of the panel's messages and the script of the chat webview.     *)
(* Every await of the extension host is a point where the other handlers   *)
(* run: an async call in flight is a job with the position it awaits at.   *)
(***************************************************************************)
MaxBridges == 2    \* AgentBridge objects created
MaxPrompts == 2    \* prompts sent by the webviews
MaxHistory == 2    \* the largest historySize tried

\* `new AgentBridge(...)`: no connection yet.
NewBridge == [live |-> FALSE]

\* A panel just created: the script of its webview starts with
\* `let isLoading = false`; sent and answered count its userPrompt messages
\* and the 'assistant' / 'error' messages it received.
NewPanel == [alive |-> TRUE, isLoading |-> FALSE, sent |-> 0, answered |-> 0]

\* An async call that is awaiting: the function, the await it is at, the
\* bridge whose method it awaits, and for handleUserPrompt the position of
\* its prompt in the transcript and the panel whose webview sent it.
Job(op, at, b, n, p) == [op |-> op, pc |-> at, b |-> b, n |-> n, p |-> p]

\* One element of chatHistory; n is its position among all entries pushed.
Entry(role, n) == [role |-> role, n |-> n]

\* deactivate() has not been called.
Active == \A j \in jobs : j.op # "deactivate"

\* Array.prototype.slice(-n): the last n elements, all of them for n = 0
\* (-0 is 0) and for n > length.
SliceLast(s, n) ==
  IF n = 0 \/ n > Len(s) THEN s ELSE SubSeq(s, Len(s) - n + 1, Len(s))

\* `currentPanel.dispose(); currentPanel = null` under `if (currentPanel)`;
\* dispose() fires the panel's onDidDispose, which sets currentPanel = null.
DisposeCurrent ==
  /\ panels' = IF currentPanel = NoObject THEN panels
               ELSE [panels EXCEPT ![currentPanel].alive = FALSE]
  /\ currentPanel' = NoObject

\* The webview's message listener on 'assistant' and on 'error':
\* setLoading(false), addMessage.
Receive(P, p) ==
  IF P[p].alive
  THEN [P EXCEPT ![p].isLoading = FALSE, ![p].answered = @ + 1]
  ELSE P

\* startSession() up to its first await, the other jobs being J: with a panel
\* it reveals the panel and returns; without one it creates an AgentBridge,
\* assigns it to `bridge` and awaits bridge.initialize().
NewSession(J) ==
  IF currentPanel # NoObject
  THEN /\ jobs' = J
       /\ UNCHANGED <<bridge, bridges>>
  ELSE /\ bridges' = Append(bridges, NewBridge)
       /\ bridge' = Len(bridges) + 1
       /\ jobs' = J \cup {Job("startSession", "initialize", Len(bridges) + 1,
                              0, NoObject)}

\* Bridges created so far plus the ones the pending restarts will create.
Committed == Len(bridges) + Cardinality({j \in jobs : j.op = "restartServers"})

ExtInit ==
  /\ NamesIdle
  /\ ConnIdle
  /\ AgentIdle
  /\ host = "extension" /\ call = NoCall /\ runs = <<>>
  /\ RegIdle
  /\ CfgIdle
  /\ bridge = NoObject
  /\ currentPanel = NoObject
  /\ chatHistory = <<>>
  /\ historySize \in 1..MaxHistory
  /\ bridges = <<>>
  /\ panels = <<>>
  /\ jobs = {}
  /\ transcript = <<>>

ExtFrame == UNCHANGED <<nameVars, connVars, agentVars, hostVars, regVars, cfgVars>>

\* The command mcpAgent.startSession.
StartSession ==
  /\ host = "extension"
  /\ Active
  /\ Committed < MaxBridges
  /\ NewSession(jobs)
  /\ UNCHANGED <<currentPanel, chatHistory, historySize, panels, transcript>>
  /\ ExtFrame

\* `await bridge.initialize()` settles.  A rejection goes to the catch, which
\* returns and leaves `bridge` as it is.  Otherwise connectActiveServers() is
\* called on what `bridge` refers to now; on null that throws.
StartInitialized(j, ok) ==
  /\ j \in jobs /\ j.op = "startSession" /\ j.pc = "initialize"
  /\ jobs' = IF ok /\ bridge # NoObject
             THEN (jobs \ {j}) \cup {Job("startSession", "connect", bridge,
                                         0, NoObject)}
             ELSE jobs \ {j}
  /\ UNCHANGED <<bridge, currentPanel, chatHistory, historySize, bridges,
                 panels, transcript>>
  /\ ExtFrame

\* `await bridge.connectActiveServers()` settles, having connected some server
\* or none; bridge.getStatus() throws on null; otherwise the panel is created
\* and assigned to currentPanel.
StartConnected(j, some) ==
  /\ j \in jobs /\ j.op = "startSession" /\ j.pc = "connect"
  /\ bridges' = [bridges EXCEPT ![j.b].live = @ \/ some]
  /\ jobs' = jobs \ {j}
  /\ IF bridge = NoObject
     THEN UNCHANGED <<panels, currentPanel>>
     ELSE /\ panels' = Append(panels, NewPanel)
          /\ currentPanel' = Len(panels) + 1
  /\ UNCHANGED <<bridge, chatHistory, historySize, transcript>>
  /\ ExtFrame

\* The user closes a panel: its onDidDispose sets currentPanel = null.
ClosePanel(p) ==
  /\ p \in DOMAIN panels /\ panels[p].alive
  /\ panels' = [panels EXCEPT ![p].alive = FALSE]
  /\ currentPanel' = NoObject
  /\ UNCHANGED <<bridge, chatHistory, historySize, bridges, jobs, transcript>>
  /\ ExtFrame

\* restartServers() / deactivate() up to the first await: with a bridge they
\* await its disconnectAll(); without one they go on to the panel.
ShutBegin(op, after) ==
  /\ host = "extension"
  /\ Active
  /\ IF bridge # NoObject
     THEN /\ jobs' = jobs \cup {Job(op, "disconnectAll", bridge, 0, NoObject)}
          /\ UNCHANGED <<panels, currentPanel>>
     ELSE /\ jobs' = jobs \cup {Job(op, after, NoObject, 0, NoObject)}
          /\ DisposeCurrent
  /\ UNCHANGED <<bridge, chatHistory, historySize, bridges, transcript>>
  /\ ExtFrame

\* `await bridge.disconnectAll()` settles: `bridge = null`, then the panel.
ShutDisconnected(j, after) ==
  /\ j \in jobs /\ j.pc = "disconnectAll"
  /\ bridges' = [bridges EXCEPT ![j.b].live = FALSE]
  /\ bridge' = NoObject
  /\ DisposeCurrent
  /\ jobs' = (jobs \ {j}) \cup {Job(j.op, after, NoObject, 0, NoObject)}
  /\ UNCHANGED <<chatHistory, historySize, transcript>>
  /\ ExtFrame

\* The command mcpAgent.restartServers.
RestartServers ==
  /\ Committed < MaxBridges
  /\ \A j \in jobs : j.op # "restartServers"
  /\ ShutBegin("restartServers", "timer")

RestartDisconnected(j) ==
  /\ j.op = "restartServers"
  /\ ShutDisconnected(j, "timer")

\* The 500 ms timer fires: executeCommand("mcpAgent.startSession").
RestartTimer(j) ==
  /\ j \in jobs /\ j.op = "restartServers" /\ j.pc = "timer"
  /\ NewSession(jobs \ {j})
  /\ UNCHANGED <<currentPanel, chatHistory, historySize, panels, transcript>>
  /\ ExtFrame

\* deactivate().
Deactivate ==
  /\ Active
  /\ ShutBegin("deactivate", "off")

DeactivateDisconnected(j) ==
  /\ j.op = "deactivate"
  /\ ShutDisconnected(j, "off")

\* The webview's sendMessage() with some text, and the panel's message
\* handler calling handleUserPrompt up to its await: nothing at all without
\* a bridge or a current panel, else the user entry is pushed and
\* bridge.runAgent() awaited.
SendMessage(p) ==
  /\ p \in DOMAIN panels /\ panels[p].alive
  /\ ~panels[p].isLoading
  /\ Len(transcript) < 2 * MaxPrompts - 1
  /\ panels' = [panels EXCEPT ![p].isLoading = TRUE, ![p].sent = @ + 1]
  /\ IF bridge = NoObject \/ currentPanel = NoObject
     THEN UNCHANGED <<chatHistory, transcript, jobs>>
     ELSE LET e == Entry("user", Len(transcript) + 1)
          IN /\ chatHistory' = Append(chatHistory, e)
             /\ transcript' = Append(transcript, e)
             /\ jobs' = jobs \cup {Job("handleUserPrompt", "runAgent", bridge,
                                       e.n, p)}
  /\ UNCHANGED <<bridge, currentPanel, historySize, bridges>>
  /\ ExtFrame

\* What a settled run posts: with the run's result the assistant entry is
\* pushed first, 'assistant' posted to currentPanel and then the history cut;
\* a rejection posts 'error'.  On currentPanel = null the post throws, in the
\* try and again in the catch: nothing is posted and nothing is cut.
Settle(ok) ==
  LET e == Entry("assistant", Len(transcript) + 1)
      pushed == IF ok THEN Append(chatHistory, e) ELSE chatHistory
  IN /\ transcript' = IF ok THEN Append(transcript, e) ELSE transcript
     /\ panels' = IF currentPanel = NoObject THEN panels
                  ELSE Receive(panels, currentPanel)
     /\ chatHistory' =
          IF ok /\ currentPanel # NoObject /\ Len(pushed) > historySize
          THEN SliceLast(pushed, historySize)
          ELSE pushed

\* `await bridge.runAgent(...)` settles in handleUserPrompt.
RunSettles(j, ok) ==
  /\ j \in jobs /\ j.op = "handleUserPrompt"
  /\ Settle(ok)
  /\ jobs' = jobs \ {j}
  /\ UNCHANGED <<bridge, currentPanel, historySize, bridges>>
  /\ ExtFrame

RunsSettle == \E j \in jobs, ok \in BOOLEAN : RunSettles(j, ok)

ExtNext ==
  \/ StartSession
  \/ \E j \in jobs, ok \in BOOLEAN : StartInitialized(j, ok)
  \/ \E j \in jobs, some \in BOOLEAN : StartConnected(j, some)
  \/ \E p \in DOMAIN panels : ClosePanel(p)
  \/ RestartServers
  \/ \E j \in jobs : RestartDisconnected(j)
  \/ \E j \in jobs : RestartTimer(j)
  \/ Deactivate
  \/ \E j \in jobs : DeactivateDisconnected(j)
  \/ \E p \in DOMAIN panels : SendMessage(p)
  \/ RunsSettle

SpecExtension == ExtInit /\ [][ExtNext]_vars

\* Every run of the agent terminates.
SpecExtensionFair == SpecExtension /\ WF_vars(RunsSettle)

\* The bridges that hold live backend connections.
LiveBridges == {b \in DOMAIN bridges : bridges[b].live}

\* C35: in the extension at most one AgentBridge holds live backend
\* connections at any time.
C35_OneLiveBridge == Cardinality(LiveBridges) <= 1

\* chatHistory holds at most historySize entries and they are the last ones
\* pushed.
HistoryKept ==
  /\ Len(chatHistory) <= historySize
  /\ chatHistory = SubSeq(transcript, Len(transcript) - Len(chatHistory) + 1,
                          Len(transcript))

\* C36: after every prompt handled by handleUserPrompt, whether the run
\* answered or failed, chatHistory holds at most historySize entries, the most
\* recent ones.
C36_HistoryBounded == [][RunsSettle => HistoryKept']_vars

\* The webview of panel p shows its loading state.
Loading(p) == p \in DOMAIN panels /\ panels[p].alive /\ panels[p].isLoading

\* Each webview has received one 'assistant' or 'error' message for each
\* userPrompt it sent, the one it is loading for excepted.
AnsweredOnce ==
  \A p \in DOMAIN panels :
    panels[p].alive =>
      panels[p].sent = panels[p].answered + (IF panels[p].isLoading THEN 1 ELSE 0)

\* A webview that is loading sends no prompt.
NoPromptWhileLoading ==
  \A p \in DOMAIN panels : Loading(p) => panels'[p].sent = panels[p].sent

\* C37: every userPrompt a webview sends is eventually answered by exactly
\* one 'assistant' or 'error' message when the runs terminate, so its loading
\* state is cleared again, and while loading it sends no second prompt.
C37_PromptAnswered ==
  /\ []AnsweredOnce
  /\ [][NoPromptWhileLoading]_vars
  /\ \A p \in 1..MaxBridges : Loading(p) ~> ~Loading(p)

====
